---- MODULE Spec2Model ----
(***************************************************************************)
(* A model of the chat-export normalisation pipeline of wechat-decoder:    *)
(* the JSON, CSV, plain-text and relational normalisers (utils/parser.ts,  *)
(* utils/db-parser.ts), the .dat media recovery (decryptDatImage), the     *)
(* format detection of parseFile and the upload handler of the application *)
(* (handleFileUpload and handleReset of App.tsx).                          *)
(* The leaf functions parseTimestamp, parseCsvLine and the type tables are *)
(* also called by themselves, on inputs of their own.                      *)
(*                                                                         *)
(* Conventions                                                             *)
(*  - JavaScript values are tagged records, field k being the kind:        *)
(*    undefined, null, number, NaN, string, boolean, object, array.        *)
(*  - JavaScript strings are TLA+ strings; the character at i of s is      *)
(*    SubSeq(s, i, i).                                                     *)
(*  - Timestamps are counted in units of 10^7 (TLC's integers are 32 bits  *)
(*    wide and the code's threshold is 10^10): every timestamp of the      *)
(*    model stands for that number times 10^7, so the comparisons with the *)
(*    thresholds and the multiplication by 1000 are exact.                 *)
(*  - The Chinese literals of the source are written in ASCII pinyin:     *)
(*    "<wo>" (me), "<duifang>" (the other side), "<fasong>" (sent),        *)
(*    "<benren>" (myself), "<weizhi-huihua>" (unknown session),            *)
(*    "<daoru>" (imported chat records); the full-width colon is ";".      *)
(***************************************************************************)
EXTENDS Integers, Sequences, FiniteSets, TLC

\* The caller of one operation: the operation called, its argument, the
\* reading of the clock and what the operation returned.
VARIABLES op, input, now, result

\* The application: its React state (appData is the state named data;
\* selectedSession, isLoading, errorMessage, mediaMap), the object urls that
\* are created and not revoked, and the invocations of handleFileUpload.
VARIABLES appData, selectedSession, isLoading, errorMessage, mediaMap, objectUrls, calls

harness == <<op, input, now, result>>
app == <<appData, selectedSession, isLoading, errorMessage, mediaMap, objectUrls, calls>>
vars == <<op, input, now, result,
          appData, selectedSession, isLoading, errorMessage, mediaMap, objectUrls, calls>>

-----------------------------------------------------------------------------
(* JavaScript values *)

Undefined == [k |-> "undefined"]
Null == [k |-> "null"]
NaN == [k |-> "NaN"]
Num(n) == [k |-> "number", v |-> n]
Str(s) == [k |-> "string", v |-> s]
Bool(b) == [k |-> "boolean", v |-> b]
\* An object keeps its keys in insertion order (Object.entries) next to the map.
Obj(keys, f) == [k |-> "object", keys |-> keys, v |-> f]
Arr(a) == [k |-> "array", v |-> a]

\* The object written { p[1][1]: p[1][2], p[2][1]: p[2][2], ... } (distinct keys).
ObjOf(pairs) ==
  Obj([i \in 1..Len(pairs) |-> pairs[i][1]],
      [key \in {pairs[i][1] : i \in 1..Len(pairs)} |->
         pairs[CHOOSE i \in 1..Len(pairs) : pairs[i][1] = key][2]])

-----------------------------------------------------------------------------
(* Strings *)

CharAt(s, i) == SubSeq(s, i, i)

Digits == {"0", "1", "2", "3", "4", "5", "6", "7", "8", "9"}

DigitVal(c) ==
  CASE c = "0" -> 0 [] c = "1" -> 1 [] c = "2" -> 2 [] c = "3" -> 3
    [] c = "4" -> 4 [] c = "5" -> 5 [] c = "6" -> 6 [] c = "7" -> 7
    [] c = "8" -> 8 [] c = "9" -> 9

DigitChar(d) == CharAt("0123456789", d + 1)

\* The characters String.prototype.trim, \s and parseInt skip.
WhiteSpace == {" ", "\t", "\r", "\n"}

\* s.includes(sub)
Includes(s, sub) ==
  \E i \in 1..(Len(s) - Len(sub) + 1) : SubSeq(s, i, i + Len(sub) - 1) = sub

\* s.startsWith(p)
StartsWith(s, p) == Len(p) <= Len(s) /\ SubSeq(s, 1, Len(p)) = p

RECURSIVE TrimStart(_)
TrimStart(s) ==
  IF s # "" /\ CharAt(s, 1) \in WhiteSpace THEN TrimStart(Tail(s)) ELSE s

RECURSIVE TrimEnd(_)
TrimEnd(s) ==
  IF s # "" /\ CharAt(s, Len(s)) \in WhiteSpace
  THEN TrimEnd(SubSeq(s, 1, Len(s) - 1)) ELSE s

\* s.trim()
Trim(s) == TrimEnd(TrimStart(s))

LowerOf(c) ==
  CASE c = "A" -> "a" [] c = "B" -> "b" [] c = "C" -> "c" [] c = "D" -> "d"
    [] c = "E" -> "e" [] c = "F" -> "f" [] c = "G" -> "g" [] c = "H" -> "h"
    [] c = "I" -> "i" [] c = "J" -> "j" [] c = "K" -> "k" [] c = "L" -> "l"
    [] c = "M" -> "m" [] c = "N" -> "n" [] c = "O" -> "o" [] c = "P" -> "p"
    [] c = "Q" -> "q" [] c = "R" -> "r" [] c = "S" -> "s" [] c = "T" -> "t"
    [] c = "U" -> "u" [] c = "V" -> "v" [] c = "W" -> "w" [] c = "X" -> "x"
    [] c = "Y" -> "y" [] c = "Z" -> "z" [] OTHER -> c

\* s.toLowerCase()
RECURSIVE ToLowerCase(_)
ToLowerCase(s) ==
  IF s = "" THEN "" ELSE LowerOf(CharAt(s, 1)) \o ToLowerCase(Tail(s))

\* /^\d+$/.test(s)
AllDigits(s) == s # "" /\ \A i \in 1..Len(s) : CharAt(s, i) \in Digits

RECURSIVE NatToStr(_)
NatToStr(n) ==
  IF n < 10 THEN DigitChar(n) ELSE NatToStr(n \div 10) \o DigitChar(n % 10)

IntToStr(n) == IF n < 0 THEN "-" \o NatToStr(-n) ELSE NatToStr(n)

\* The value of the longest prefix of digits of s, acc being the value so far.
RECURSIVE DigitPrefix(_, _)
DigitPrefix(s, acc) ==
  IF s # "" /\ CharAt(s, 1) \in Digits
  THEN DigitPrefix(Tail(s), acc * 10 + DigitVal(CharAt(s, 1)))
  ELSE acc

\* parseInt(s, 10): leading white space, an optional sign, then the longest
\* prefix of digits; NaN when there is no digit.
ParseInt(s) ==
  LET t == TrimStart(s)
      signed == t # "" /\ CharAt(t, 1) \in {"+", "-"}
      body == IF signed THEN Tail(t) ELSE t
  IN IF body = "" \/ CharAt(body, 1) \notin Digits THEN NaN
     ELSE IF signed /\ CharAt(t, 1) = "-" THEN Num(-DigitPrefix(body, 0))
     ELSE Num(DigitPrefix(body, 0))

\* s.split(sep) for a one-character separator.
RECURSIVE Split(_, _)
Split(s, sep) ==
  IF \A i \in 1..Len(s) : CharAt(s, i) # sep THEN <<s>>
  ELSE LET p == CHOOSE i \in 1..Len(s) :
                  CharAt(s, i) = sep /\ \A j \in 1..(i - 1) : CharAt(s, j) # sep
       IN <<SubSeq(s, 1, p - 1)>> \o Split(SubSeq(s, p + 1, Len(s)), sep)

-----------------------------------------------------------------------------
(* JavaScript semantics used by the normalisers *)

\* Boolean(v)
Truthy(v) ==
  CASE v.k \in {"undefined", "null", "NaN"} -> FALSE
    [] v.k = "number" -> v.v # 0
    [] v.k = "string" -> v.v # ""
    [] v.k = "boolean" -> v.v
    [] OTHER -> TRUE

\* String(v); an array joins its elements with commas, null and undefined
\* elements giving the empty string.
RECURSIVE ToStr(_)
RECURSIVE JoinArr(_)
ToStr(v) ==
  CASE v.k = "undefined" -> "undefined"
    [] v.k = "null" -> "null"
    [] v.k = "NaN" -> "NaN"
    [] v.k = "number" -> IntToStr(v.v)
    [] v.k = "string" -> v.v
    [] v.k = "boolean" -> IF v.v THEN "true" ELSE "false"
    [] v.k = "object" -> "[object Object]"
    [] v.k = "array" -> JoinArr(v.v)
JoinArr(a) ==
  IF a = <<>> THEN ""
  ELSE LET h == IF Head(a).k \in {"undefined", "null"} THEN "" ELSE ToStr(Head(a))
       IN IF Len(a) = 1 THEN h ELSE h \o "," \o JoinArr(Tail(a))

\* o.key: undefined unless o is an object holding the key (arrays and
\* primitives of the model carry none of the keys the parsers read).
Get(o, key) ==
  IF o.k = "object" /\ key \in DOMAIN o.v THEN o.v[key] ELSE Undefined

\* key in o, for an object or array o.
HasKey(o, key) == o.k = "object" /\ key \in DOMAIN o.v

\* o[keys[1]] || o[keys[2]] || ... || last
RECURSIVE OrKeys(_, _, _)
OrKeys(o, keys, last) ==
  IF keys = <<>> THEN last
  ELSE IF Truthy(Get(o, Head(keys))) THEN Get(o, Head(keys))
  ELSE OrKeys(o, Tail(keys), last)

\* o[keys[1]] ?? o[keys[2]] ?? ... (the last key's value when all are nullish)
RECURSIVE CoalesceKeys(_, _)
CoalesceKeys(o, keys) ==
  IF Len(keys) = 1 \/ Get(o, Head(keys)).k \notin {"undefined", "null"}
  THEN Get(o, Head(keys))
  ELSE CoalesceKeys(o, Tail(keys))

-----------------------------------------------------------------------------
(* Canonical model: literals and leaf components (utils/parser.ts) *)

Kinds == {"text", "image", "voice", "video", "file", "system"}

SelfName == "<wo>"
OtherName == "<duifang>"
SentMarker == "<fasong>"
UnknownSessionName == "<weizhi-huihua>"
ImportedSessionName == "<daoru>"

\* generateId(): an opaque random token; no normaliser reads it back.
GeneratedId == "<generated>"

\* 10_000_000_000, in units of 10^7: numbers below it are seconds.
SecondsThreshold == 1000

\* The spellings of 15 January 2024, half past ten, that the model feeds
\* to new Date: the form the second pattern of parseTextData captures (with
\* and without seconds, one or two spaces, - or /) and the ISO form.
JanuaryDateTimes ==
  {d \o sep \o t : d \in {"2024-01-15", "2024/01/15"}, sep \in {" ", "  "},
                   t \in {"10:30", "10:30:45"}}
  \cup {"2024-01-15T10:30", "2024-01-15T10:30:45"}

\* new Date(s).getTime() for the date strings the model feeds it, the time
\* zone being UTC; any other string of the model is an invalid date. The
\* January dates are 1705314600000 and 1705314645000, which is 170531 at
\* the resolution of the model.
DateParse(s) ==
  IF s = "Nov 14 2023 22:13:20 GMT" THEN Num(170000)
  ELSE IF s \in JanuaryDateTimes THEN Num(170531)
  ELSE NaN

\* The string branch of parseTimestamp: num is parseInt(value, 10), date is
\* new Date(value).getTime().
TimestampOfString(num, date, nowv) ==
  IF num # NaN THEN num.v ELSE IF date # NaN THEN date.v ELSE nowv

\* parseTimestamp(value), Date.now() being nowv.  JSON holds no NaN, so a
\* value of kind number is an integer of the model.
ParseTimestamp(value, nowv) ==
  CASE value.k = "number" -> value.v
    [] value.k = "string" ->
         TimestampOfString(ParseInt(value.v), DateParse(value.v), nowv)
    [] OTHER -> nowv

\* typeMap[code] || 'text' of parseMessageType, code a number or NaN.
JsonTypeMap(code) ==
  IF code.k # "number" THEN "text"
  ELSE CASE code.v = 1 -> "text"
         [] code.v = 3 -> "image"
         [] code.v = 34 -> "voice"
         [] code.v = 42 -> "text"
         [] code.v = 43 -> "video"
         [] code.v = 47 -> "text"
         [] code.v = 48 -> "text"
         [] code.v = 49 -> "file"
         [] code.v = 50 -> "voice"
         [] code.v = 10000 -> "system"
         [] code.v = 10002 -> "system"
         [] OTHER -> "text"

\* parseMessageType(typeCode)
ParseMessageType(typeCode) ==
  JsonTypeMap(IF typeCode.k \in {"number", "NaN"} THEN typeCode
              ELSE ParseInt(ToStr(typeCode)))

\* A faulty variant of parseMessageTypeFromCode: the CSV path looks the code
\* up in the table of parseMessageType.
ParseMessageTypeFromCodeSharedTable(code) == JsonTypeMap(code)

\* parseMessageTypeFromCode(code), code a number or NaN.
ParseMessageTypeFromCode(code) ==
  IF code.k # "number" THEN "text"
  ELSE CASE code.v = 1 -> "text"
         [] code.v = 3 -> "image"
         [] code.v = 34 -> "voice"
         [] code.v = 43 -> "video"
         [] code.v = 49 -> "file"
         [] code.v = 10000 -> "system"
         [] code.v = 10002 -> "system"
         [] OTHER -> "text"

\* The free-text branch of the type discriminator in parseMessageObject.
TypeFromWord(w) ==
  IF Includes(w, "image") THEN "image"
  ELSE IF Includes(w, "voice") \/ Includes(w, "audio") THEN "voice"
  ELSE IF Includes(w, "video") THEN "video"
  ELSE IF Includes(w, "file") THEN "file"
  ELSE IF Includes(w, "system") THEN "system"
  ELSE "text"

\* The type of a message object from its discriminator typeValue.
MessageTypeOf(typeValue) ==
  IF typeValue.k = "number" \/ (typeValue.k = "string" /\ AllDigits(typeValue.v))
  THEN ParseMessageType(typeValue)
  ELSE IF typeValue.k = "string" THEN TypeFromWord(typeValue.v)
  ELSE "text"

\* The self flag of a message object, isSendValue being
\* msg.IsSend ?? msg.isSend ?? msg.is_send ?? msg.issend.
IsSelfWith(msg, isSendValue) ==
  \/ Truthy(Get(msg, "isSelf"))
  \/ Truthy(Get(msg, "is_self"))
  \/ isSendValue = Num(1)
  \/ isSendValue = Str("1")
  \/ isSendValue = Bool(TRUE)
  \/ Get(msg, "direction") = Str("send")
  \/ Get(msg, "type_name") = Str(SentMarker)

IsSelfOf(msg) ==
  IsSelfWith(msg, CoalesceKeys(msg, <<"IsSend", "isSend", "is_send", "issend">>))

\* if (typeof timestamp === 'number' && timestamp < 10000000000) timestamp *= 1000
SecondsToMillis(t) ==
  IF t.k = "number" /\ t.v < SecondsThreshold THEN Num(t.v * 1000) ELSE t

\* The timestamp field of a message object, seconds turned into milliseconds.
RawTimestampOf(msg) ==
  SecondsToMillis(OrKeys(msg, <<"CreateTime", "createTime", "create_time", "timestamp",
                                "time", "Timestamp">>, Get(msg, "Time")))

\* The message parseMessageObject returns for the object data with the
\* extracted content and self flag; Null when the content is empty.
MessageFrom(data, content, isSelf, nowv) ==
  IF content = "" THEN Null
  ELSE [id |-> ToStr(OrKeys(data, <<"localId", "MsgSvrID", "msgSvrId", "id", "msgId",
                                    "message_id">>, Str(GeneratedId))),
        senderId |-> ToStr(OrKeys(data, <<"StrTalker", "strTalker", "talker",
                                          "senderId", "sender_id", "wxid">>, Str(""))),
        senderName |-> ToStr(OrKeys(data, <<"NickName", "nickName", "nickname",
                                            "senderName", "sender_name", "remark">>,
                                    Str(IF isSelf THEN SelfName ELSE OtherName))),
        content |-> content,
        timestamp |-> ParseTimestamp(RawTimestampOf(data), nowv),
        type |-> MessageTypeOf(OrKeys(data, <<"Type", "type", "msgType">>,
                                      Get(data, "message_type"))),
        isSelf |-> isSelf]

\* parseMessageObject(data): a message, or Null when the record is dropped.
ParseMessageObject(data, nowv) ==
  IF data.k \notin {"object", "array"} THEN Null
  ELSE MessageFrom(data,
                   ToStr(OrKeys(data, <<"StrContent", "strContent", "content",
                                        "message", "text", "msg", "Content">>, Str(""))),
                   IsSelfOf(data), nowv)

\* [m].filter(Boolean)
Kept(m) == IF m = Null THEN <<>> ELSE <<m>>

\* value.map(parseMessageObject).filter(Boolean)
RECURSIVE ParseMessages(_, _)
ParseMessages(a, nowv) ==
  IF a = <<>> THEN <<>>
  ELSE Kept(ParseMessageObject(Head(a), nowv)) \o ParseMessages(Tail(a), nowv)

\* msgs.sort((a, b) => a.timestamp - b.timestamp): a stable sort, as
\* Array.prototype.sort is; InsertByTimestamp puts m after its equals.
RECURSIVE InsertByTimestamp(_, _)
InsertByTimestamp(sorted, m) ==
  IF sorted = <<>> THEN <<m>>
  ELSE IF sorted[Len(sorted)].timestamp <= m.timestamp THEN Append(sorted, m)
  ELSE Append(InsertByTimestamp(SubSeq(sorted, 1, Len(sorted) - 1), m),
              sorted[Len(sorted)])

RECURSIVE SortByTimestamp(_)
SortByTimestamp(msgs) ==
  IF msgs = <<>> THEN <<>>
  ELSE InsertByTimestamp(SortByTimestamp(SubSeq(msgs, 1, Len(msgs) - 1)),
                         msgs[Len(msgs)])

\* msgs[msgs.length - 1]?.content and ?.timestamp
LastContent(msgs) ==
  IF msgs = <<>> THEN Undefined ELSE Str(msgs[Len(msgs)].content)
LastTimestamp(msgs) ==
  IF msgs = <<>> THEN Undefined ELSE Num(msgs[Len(msgs)].timestamp)

\* (s.lastMessageTime || 0)
RecencyOf(s) == IF Truthy(s.lastMessageTime) THEN s.lastMessageTime.v ELSE 0

\* sessions.sort((a, b) => (b.lastMessageTime || 0) - (a.lastMessageTime || 0))
RECURSIVE InsertByRecency(_, _)
InsertByRecency(sorted, s) ==
  IF sorted = <<>> THEN <<s>>
  ELSE IF RecencyOf(sorted[Len(sorted)]) >= RecencyOf(s) THEN Append(sorted, s)
  ELSE Append(InsertByRecency(SubSeq(sorted, 1, Len(sorted) - 1), s),
              sorted[Len(sorted)])

\* A faulty variant of SortByRecency: the sessions stay in the order of the
\* first message of each talker.
SessionsInInsertionOrder(sessions) == sessions

RECURSIVE SortByRecency(_)
SortByRecency(sessions) ==
  IF sessions = <<>> THEN <<>>
  ELSE InsertByRecency(SortByRecency(SubSeq(sessions, 1, Len(sessions) - 1)),
                       sessions[Len(sessions)])

\* A session literal without avatar whose lastMessage and lastMessageTime
\* are those of the last element of messages.
NewSession(name, messageCount, messages, isGroup) ==
  [id |-> GeneratedId,
   name |-> name,
   avatar |-> Undefined,
   messageCount |-> messageCount,
   messages |-> messages,
   lastMessage |-> LastContent(messages),
   lastMessageTime |-> LastTimestamp(messages),
   isGroup |-> isGroup]

\* The index in groups of the entry of key, 0 when the map has none.
GroupIndex(groups, key) ==
  IF \E i \in 1..Len(groups) : groups[i].key = key
  THEN CHOOSE i \in 1..Len(groups) : groups[i].key = key
  ELSE 0

\* if (!sessionMap.has(key)) sessionMap.set(key, fresh)
WithGroup(groups, key, fresh) ==
  IF GroupIndex(groups, key) # 0 THEN groups ELSE Append(groups, fresh)

\* sessionMap.get(key).push(msg)
PushMessage(groups, key, msg) ==
  [groups EXCEPT ![GroupIndex(groups, key)].messages = Append(@, msg)]

-----------------------------------------------------------------------------
(* JSON normaliser (utils/parser.ts) *)

\* A TypeError raised inside the try block of parseJsonData.
Thrown == [k |-> "throw"]

\* The session parseSessionObject returns for data and its parsed messages.
SessionObjectOf(data, parsedMessages) ==
  [id |-> ToStr(OrKeys(data, <<"id", "sessionId">>, Str(GeneratedId))),
   name |-> ToStr(OrKeys(data, <<"name", "nickname", "title">>, Str(UnknownSessionName))),
   avatar |-> Get(data, "avatar"),
   messageCount |-> Len(parsedMessages),
   messages |-> parsedMessages,
   lastMessage |-> LastContent(parsedMessages),
   lastMessageTime |-> LastTimestamp(parsedMessages),
   isGroup |-> \/ Truthy(Get(data, "isGroup"))
               \/ Truthy(Get(data, "is_group"))
               \/ Get(data, "chatType") = Str("group")]

\* parseSessionObject on data whose messages || chatList || chat || [] is
\* messages: Null when that is no array.
SessionObjectWith(data, messages, nowv) ==
  IF messages.k # "array" THEN Null
  ELSE SessionObjectOf(data, ParseMessages(messages.v, nowv))

\* parseSessionObject(data): a session, Null (messages is no array), or
\* Thrown (a property read on null or undefined).
ParseSessionObject(data, nowv) ==
  IF data.k \in {"null", "undefined"} THEN Thrown
  ELSE SessionObjectWith(data, OrKeys(data, <<"messages", "chatList", "chat">>, Arr(<<>>)),
                         nowv)

\* if (session) sessions.push(session)
PushSession(sessions, session) ==
  IF session = Null THEN sessions ELSE Append(sessions, session)

\* The loop over an array of session objects: the sessions pushed so far and
\* whether an element threw (the loop ends there).
RECURSIVE ParseSessionArray(_, _, _)
RECURSIVE SessionArrayStep(_, _, _, _)
ParseSessionArray(a, acc, nowv) ==
  IF a = <<>> THEN [sessions |-> acc, threw |-> FALSE]
  ELSE SessionArrayStep(a, acc, ParseSessionObject(Head(a), nowv), nowv)
SessionArrayStep(a, acc, session, nowv) ==
  IF session = Thrown THEN [sessions |-> acc, threw |-> TRUE]
  ELSE ParseSessionArray(Tail(a), PushSession(acc, session), nowv)

\* A faulty variant: the messages are filed under the sender's name.
GroupKeyBySenderName(parsed) == parsed.senderName

\* parsed.senderId || 'unknown'
GroupKey(parsed) == IF parsed.senderId # "" THEN parsed.senderId ELSE "unknown"

\* !parsed.isSelf && parsed.senderName !== OtherName
HasOwnName(parsed) == ~parsed.isSelf /\ parsed.senderName # OtherName

\* A faulty variant: only a name that equals the key is replaced.
GroupUpdateFromKeyOnly(groups, key, parsed) ==
  [groups EXCEPT ![GroupIndex(groups, key)] =
     [name |-> IF HasOwnName(parsed) /\ parsed.senderName # key /\ @.name = key
               THEN parsed.senderName ELSE @.name,
      key |-> @.key,
      messages |-> Append(@.messages, parsed)]]

\* The name update and the push of the grouping loop, the map holding key.
GroupUpdate(groups, key, parsed) ==
  [groups EXCEPT ![GroupIndex(groups, key)] =
     [name |-> IF /\ HasOwnName(parsed)
                  /\ parsed.senderName # key
                  /\ (@.name = key \/ @.name = "unknown")
               THEN parsed.senderName ELSE @.name,
      key |-> @.key,
      messages |-> Append(@.messages, parsed)]]

\* One iteration of the grouping loop of groupMessagesByConversation on the
\* parsed message, groups being sessionMap in insertion order.
GroupStepAt(groups, key, parsed) ==
  GroupUpdate(WithGroup(groups, key,
                        [key |-> key, messages |-> <<>>,
                         name |-> IF HasOwnName(parsed) THEN parsed.senderName ELSE key]),
              key, parsed)

GroupStep(groups, parsed) ==
  IF parsed = Null THEN groups ELSE GroupStepAt(groups, GroupKey(parsed), parsed)

RECURSIVE GroupLoop(_, _, _)
GroupLoop(a, groups, nowv) ==
  IF a = <<>> THEN groups
  ELSE GroupLoop(Tail(a), GroupStep(groups, ParseMessageObject(Head(a), nowv)), nowv)

\* The session built from one entry of sessionMap, msgs being its sorted
\* messages.
GroupSessionOf(g, msgs) == NewSession(g.name, Len(msgs), msgs, Includes(g.key, "@chatroom"))

GroupSession(g) == GroupSessionOf(g, SortByTimestamp(g.messages))

\* The sessions of sessionMap, sorted by recency.
GroupSessions(groups) ==
  SortByRecency([i \in 1..Len(groups) |-> GroupSession(groups[i])])

\* groupMessagesByConversation(messages)
GroupMessagesByConversation(a, nowv) == GroupSessions(GroupLoop(a, <<>>, nowv))

\* The session of one array-valued property of a keyed-sessions object.
KeyedSession(key, value, nowv) ==
  NewSession(key, Len(value), ParseMessages(value, nowv), FALSE)

\* The loop over Object.entries(data) of a keyed-sessions object.
RECURSIVE KeyedSessions(_, _, _)
KeyedSessions(data, keys, nowv) ==
  IF keys = <<>> THEN <<>>
  ELSE (IF data.v[Head(keys)].k = "array"
        THEN <<KeyedSession(Head(keys), data.v[Head(keys)].v, nowv)>>
        ELSE <<>>) \o KeyedSessions(data, Tail(keys), nowv)

\* sessions.reduce((sum, s) => sum + s.messages.length, 0)
RECURSIVE SumMessages(_)
SumMessages(sessions) ==
  IF sessions = <<>> THEN 0
  ELSE Len(Head(sessions).messages) + SumMessages(Tail(sessions))

\* The try block of parseJsonData: the sessions present when it ends, and
\* whether it ended by an exception.
JsonSessions(jsonData, nowv) ==
  IF jsonData.k = "array" THEN
    IF jsonData.v # <<>> /\ jsonData.v[1].k \notin {"object", "array"}
    THEN [sessions |-> <<>>, threw |-> TRUE]
    ELSE IF jsonData.v # <<>> /\ HasKey(jsonData.v[1], "messages")
    THEN ParseSessionArray(jsonData.v, <<>>, nowv)
    ELSE [sessions |-> GroupMessagesByConversation(jsonData.v, nowv), threw |-> FALSE]
  ELSE IF jsonData.k = "object" THEN
    IF HasKey(jsonData, "messages") \/ HasKey(jsonData, "chatList")
    THEN [sessions |-> PushSession(<<>>, ParseSessionObject(jsonData, nowv)),
          threw |-> FALSE]
    ELSE [sessions |-> KeyedSessions(jsonData, jsonData.keys, nowv), threw |-> FALSE]
  ELSE [sessions |-> <<>>, threw |-> FALSE]

\* What parseJsonData returns after the try block ended with r.
JsonResult(r, elapsed) ==
  [sessions |-> r.sessions,
   totalMessages |-> SumMessages(r.sessions),
   parseTime |-> elapsed,
   threw |-> r.threw]

\* parseJsonData(jsonData); elapsed is the wall-clock time the call took.
ParseJsonData(jsonData, nowv, elapsed) == JsonResult(JsonSessions(jsonData, nowv), elapsed)

-----------------------------------------------------------------------------
(* CSV normaliser (utils/parser.ts) *)

\* The loop of parseCsvLine from character i on: result is the fields pushed
\* so far, current the field being read.
RECURSIVE CsvLineLoop(_, _, _, _, _)
CsvLineLoop(line, i, current, inQuotes, fields) ==
  IF i > Len(line) THEN Append(fields, Trim(current))
  ELSE LET char == CharAt(line, i)
       IN IF char = "\"" THEN CsvLineLoop(line, i + 1, current, ~inQuotes, fields)
          ELSE IF char = "," /\ ~inQuotes
          THEN CsvLineLoop(line, i + 1, "", inQuotes, Append(fields, Trim(current)))
          ELSE CsvLineLoop(line, i + 1, current \o char, inQuotes, fields)

\* A faulty variant of ParseCsvLine: the line is split on every comma,
\* quoted or not, the quotes being dropped all the same.
RECURSIVE WithoutQuotes(_)
WithoutQuotes(s) ==
  IF s = "" THEN ""
  ELSE (IF CharAt(s, 1) = "\"" THEN "" ELSE CharAt(s, 1))
       \o WithoutQuotes(SubSeq(s, 2, Len(s)))

ParseCsvLineSplittingOnEveryComma(line) ==
  [i \in 1..Len(Split(line, ",")) |-> Trim(WithoutQuotes(Split(line, ",")[i]))]

\* parseCsvLine(line)
ParseCsvLine(line) == CsvLineLoop(line, 1, "", FALSE, <<>>)

\* csvContent.split('\n').filter(line => line.trim())
NonBlankLines(text) == SelectSeq(Split(text, "\n"), LAMBDA line : Trim(line) # "")

\* lines[0].split(',').map(h => h.trim().toLowerCase())
CsvHeaders(line) ==
  LET raw == Split(line, ",") IN [i \in 1..Len(raw) |-> ToLowerCase(Trim(raw[i]))]

\* The row object: headers.forEach((h, idx) => row[h] = values[idx]); a
\* header that occurs twice keeps its last value.
CsvRow(headers, values) ==
  Obj(headers,
      [h \in {headers[i] : i \in 1..Len(headers)} |->
         Str(values[CHOOSE i \in 1..Len(headers) :
                      headers[i] = h /\ \A j \in (i + 1)..Len(headers) : headers[j] # h])])

\* if (timestamp > 0 && timestamp < 10000000000) timestamp = timestamp * 1000
CsvSecondsToMillis(parsed) ==
  IF parsed.k = "number" /\ parsed.v > 0 /\ parsed.v < SecondsThreshold
  THEN Num(parsed.v * 1000) ELSE parsed

\* timestamp || Date.now(), timestamp a number or NaN
OrNow(timestamp, nowv) == IF Truthy(timestamp) THEN timestamp.v ELSE nowv

\* The time stamp of a row: parseInt of the time column ('0' when it is
\* missing), seconds turned into milliseconds, Date.now() for 0 and NaN.
CsvTimestamp(row, nowv) ==
  OrNow(CsvSecondsToMillis(
          ParseInt(OrKeys(row, <<"createtime", "timestamp", "time">>, Str("0")).v)),
        nowv)

\* The message pushed for a row with the extracted content and self flag;
\* Null when the row has no content.
CsvMessageFrom(row, content, isSelf, nowv) ==
  IF content = "" THEN Null
  ELSE [id |-> OrKeys(row, <<"localid", "msgsrvid", "id">>, Str(GeneratedId)).v,
        senderId |-> OrKeys(row, <<"strtalker", "talker", "senderid", "sender_id", "wxid">>,
                            Str("")).v,
        senderName |-> OrKeys(row, <<"nickname", "sendername", "sender_name", "remark">>,
                              Str(IF isSelf THEN SelfName ELSE OtherName)).v,
        content |-> content,
        timestamp |-> CsvTimestamp(row, nowv),
        type |-> ParseMessageTypeFromCode(
                   ParseInt(OrKeys(row, <<"type", "msgtype">>, Str("1")).v)),
        isSelf |-> isSelf]

\* A faulty variant of CsvMessage: the alias content is missing from the
\* list the content is read from.
CsvMessageWithoutContentAlias(row, nowv) ==
  CsvMessageFrom(row,
                 OrKeys(row, <<"strcontent", "message", "text", "msg">>, Str("")).v,
                 ToLowerCase(OrKeys(row, <<"issend", "is_send", "isself", "is_self",
                                           "direction">>, Str("")).v)
                   \in {"1", "true", "yes", SentMarker},
                 nowv)

\* The message of one row object, or Null.
CsvMessage(row, nowv) ==
  CsvMessageFrom(row,
                 OrKeys(row, <<"strcontent", "content", "message", "text", "msg">>,
                        Str("")).v,
                 ToLowerCase(OrKeys(row, <<"issend", "is_send", "isself", "is_self",
                                           "direction">>, Str("")).v)
                   \in {"1", "true", "yes", SentMarker},
                 nowv)

\* A faulty variant of CsvLineMessage: the width of the line is not
\* compared with that of the header; a column the line lacks reads as
\* empty and the values beyond the header are ignored.
CsvLineMessageOfAnyWidth(headers, values, nowv) ==
  CsvMessage(CsvRow(headers,
                    [i \in 1..Len(headers) |->
                       IF i <= Len(values) THEN values[i] ELSE ""]),
             nowv)

\* The message of one data line split into values; a line of the wrong
\* width is skipped.
CsvLineMessage(headers, values, nowv) ==
  IF Len(values) # Len(headers) THEN Null
  ELSE CsvMessage(CsvRow(headers, values), nowv)

\* The loop over the data lines: rows of the wrong width and rows without
\* content are skipped.
RECURSIVE CsvMessages(_, _, _)
CsvMessages(headers, lines, nowv) ==
  IF lines = <<>> THEN <<>>
  ELSE Kept(CsvLineMessage(headers, ParseCsvLine(Head(lines)), nowv))
       \o CsvMessages(headers, Tail(lines), nowv)

\* One iteration of a grouping loop by talker: the entry is created when
\* missing and the message pushed.
AddToGroup(groups, key, msg) ==
  PushMessage(WithGroup(groups, key, [key |-> key, messages |-> <<>>]), key, msg)

\* msg.senderId || UnknownSessionName
CsvGroupKey(msg) == IF msg.senderId # "" THEN msg.senderId ELSE UnknownSessionName

\* The grouping loop of parseCsvData: sessionMap in insertion order.
RECURSIVE CsvGroups(_, _)
CsvGroups(messages, groups) ==
  IF messages = <<>> THEN groups
  ELSE CsvGroups(Tail(messages),
                 AddToGroup(groups, CsvGroupKey(Head(messages)), Head(messages)))

\* The session of one talker of a CSV with several talkers: the name is read
\* before msgs.sort, the last message after it.
CsvGroupSession(g) ==
  NewSession(IF g.messages[1].senderName # SelfName
             THEN g.messages[1].senderName ELSE g.key,
             Len(g.messages),
             SortByTimestamp(g.messages),
             Includes(g.key, "@chatroom"))

\* The result for at most one talker: one session holding every message.
CsvSingleResult(messages, elapsed) ==
  [sessions |-> IF Len(messages) > 0
                THEN <<NewSession(ImportedSessionName, Len(messages), messages, FALSE)>>
                ELSE <<>>,
   totalMessages |-> Len(messages),
   parseTime |-> elapsed]

\* What parseCsvData returns for the sorted messages and sessionMap.
CsvResult(messages, groups, elapsed) ==
  IF Len(groups) <= 1 THEN CsvSingleResult(messages, elapsed)
  ELSE [sessions |->
          SortByRecency([i \in 1..Len(groups) |-> CsvGroupSession(groups[i])]),
        totalMessages |-> Len(messages),
        parseTime |-> elapsed]

\* parseCsvData from the grouping loop on, messages being sorted.
CsvGrouped(messages, elapsed) == CsvResult(messages, CsvGroups(messages, <<>>), elapsed)

\* parseCsvData on the non-blank lines of the content.
CsvParsed(lines, nowv, elapsed) ==
  IF Len(lines) < 2 THEN [sessions |-> <<>>, totalMessages |-> 0, parseTime |-> 0]
  ELSE CsvGrouped(SortByTimestamp(CsvMessages(CsvHeaders(lines[1]), Tail(lines), nowv)),
                  elapsed)

\* parseCsvData(csvContent)
ParseCsvData(csvContent, nowv, elapsed) ==
  CsvParsed(NonBlankLines(csvContent), nowv, elapsed)

-----------------------------------------------------------------------------
(* Plain-text normaliser (utils/parser.ts) *)

FullWidthColon == ";"
Colons == {":", FullWidthColon}

\* What . matches: any character but a line terminator.
AllDots(s) == \A i \in 1..Len(s) : CharAt(s, i) \notin {"\n", "\r"}
AllSpaces(s) == \A i \in 1..Len(s) : CharAt(s, i) \in WhiteSpace

NoMatch == [ok |-> FALSE]

\* \s*(.+)$ on s: the greedy \s* takes as much white space as leaves a
\* non-empty rest of . characters for the group.
TailSplits(s) ==
  {k \in 0..(Len(s) - 1) : AllSpaces(SubSeq(s, 1, k)) /\ AllDots(SubSeq(s, k + 1, Len(s)))}

MaxOf(S) == CHOOSE x \in S : \A y \in S : y <= x
MinOf(S) == CHOOSE x \in S : \A y \in S : x <= y

\* (.+?)[:;]\s*(.+)$ anchored at the start of s: the lazy first group ends
\* at the first colon that lets the rest match.
SenderSplits(s) ==
  {p \in 2..Len(s) : /\ CharAt(s, p) \in Colons
                     /\ AllDots(SubSeq(s, 1, p - 1))
                     /\ TailSplits(SubSeq(s, p + 1, Len(s))) # {}}

\* The groups of pattern 3 for the lazy sender and the rest after the colon.
SenderGroups(sender, rest) ==
  [ok |-> TRUE,
   groups |-> <<sender, SubSeq(rest, MaxOf(TailSplits(rest)) + 1, Len(rest))>>]

SenderAt(s, splits) ==
  IF splits = {} THEN NoMatch
  ELSE SenderGroups(SubSeq(s, 1, MinOf(splits) - 1), SubSeq(s, MinOf(splits) + 1, Len(s)))

\* Pattern 3: /^(.+?)[:;]\s*(.+)$/
MatchSender(s) == SenderAt(s, SenderSplits(s))

\* \s*(.+?)[:;]\s*(.+)$ or, with atLeast = 1, \s+(.+?)[:;]\s*(.+)$ on s: the
\* greedy white space gives back until the rest matches.
SpaceSplits(s, atLeast) ==
  {k \in atLeast..Len(s) : AllSpaces(SubSeq(s, 1, k))
                           /\ MatchSender(SubSeq(s, k + 1, Len(s))).ok}

SpacedSenderAt(s, splits) ==
  IF splits = {} THEN NoMatch ELSE MatchSender(SubSeq(s, MaxOf(splits) + 1, Len(s)))

MatchSpacedSender(s, atLeast) == SpacedSenderAt(s, SpaceSplits(s, atLeast))

\* The match made of a first group and the match m of the rest.
Prefixed(first, m) ==
  IF m.ok THEN [ok |-> TRUE, groups |-> <<first>> \o m.groups] ELSE NoMatch

\* The closing brackets the lazy first group of pattern 1 can end before.
BracketSplits(line) ==
  {q \in 3..Len(line) : /\ CharAt(line, q) = "]"
                        /\ AllDots(SubSeq(line, 2, q - 1))
                        /\ MatchSpacedSender(SubSeq(line, q + 1, Len(line)), 0).ok}

BracketedAt(line, splits) ==
  IF splits = {} THEN NoMatch
  ELSE Prefixed(SubSeq(line, 2, MinOf(splits) - 1),
                MatchSpacedSender(SubSeq(line, MinOf(splits) + 1, Len(line)), 0))

\* Pattern 1: /^\[(.+?)\]\s*(.+?)[:;]\s*(.+)$/
MatchBracketed(line) ==
  IF line = "" \/ CharAt(line, 1) # "[" THEN NoMatch
  ELSE BracketedAt(line, BracketSplits(line))

IsDigitAt(s, i) == i <= Len(s) /\ CharAt(s, i) \in Digits
IsCharAt(s, i, set) == i <= Len(s) /\ CharAt(s, i) \in set

\* The number of white-space characters of s from position i on.
RECURSIVE SpacesFrom(_, _)
SpacesFrom(s, i) == IF IsCharAt(s, i, WhiteSpace) THEN 1 + SpacesFrom(s, i + 1) ELSE 0

\* \d{4}[-/]\d{2}[-/]\d{2}\s+ at the start of line, the white space being w
\* characters, and then \d{2}:\d{2}: the length of the match, 0 when there is
\* none.
DateTimeLenWith(line, w) ==
  IF /\ \A i \in {1, 2, 3, 4, 6, 7, 9, 10} : IsDigitAt(line, i)
     /\ IsCharAt(line, 5, {"-", "/"}) /\ IsCharAt(line, 8, {"-", "/"})
     /\ w >= 1
     /\ IsDigitAt(line, 11 + w) /\ IsDigitAt(line, 12 + w) /\ IsCharAt(line, 13 + w, {":"})
     /\ IsDigitAt(line, 14 + w) /\ IsDigitAt(line, 15 + w)
  THEN 15 + w ELSE 0

DateTimeLen(line) == DateTimeLenWith(line, SpacesFrom(line, 11))

\* a || b for two matches
OrMatch(a, b) == IF a.ok THEN a ELSE b

\* Pattern 2 on a line whose date and time without seconds take n
\* characters: the optional seconds are tried first, then left out.
DatedAt(line, n) ==
  IF n = 0 THEN NoMatch
  ELSE OrMatch(IF /\ IsCharAt(line, n + 1, {":"})
                  /\ IsDigitAt(line, n + 2) /\ IsDigitAt(line, n + 3)
               THEN Prefixed(SubSeq(line, 1, n + 3),
                             MatchSpacedSender(SubSeq(line, n + 4, Len(line)), 1))
               ELSE NoMatch,
               Prefixed(SubSeq(line, 1, n),
                        MatchSpacedSender(SubSeq(line, n + 1, Len(line)), 1)))

\* Pattern 2: /^(\d{4}[-/]\d{2}[-/]\d{2}\s+\d{2}:\d{2}(?::\d{2})?)\s+(.+?)[:;]\s*(.+)$/
MatchDated(line) == DatedAt(line, DateTimeLen(line))

\* The first of the three patterns that matches line.
MatchLine(line) ==
  OrMatch(MatchBracketed(line), OrMatch(MatchDated(line), MatchSender(line)))

\* The message of a match whose sender group, trimmed, is sender.
TextMessageOf(groups, sender, nowv) ==
  [id |-> GeneratedId,
   senderId |-> sender,
   senderName |-> sender,
   content |-> Trim(groups[Len(groups)]),
   timestamp |-> IF Len(groups) = 3 THEN ParseTimestamp(Str(groups[1]), nowv) ELSE nowv,
   type |-> "text",
   isSelf |-> ToLowerCase(sender) \in {SelfName, "me", "self", "<benren>"}]

\* The message of a line that matched, three groups carrying a time stamp.
TextMessage(groups, nowv) == TextMessageOf(groups, Trim(groups[Len(groups) - 1]), nowv)

\* A faulty variant of TextStep: a line that matches no pattern is
\* discarded.
TextStepDroppingContinuations(messages, line, m, nowv) ==
  IF m.ok THEN Append(messages, TextMessage(m.groups, nowv)) ELSE messages

\* One iteration of the loop over the lines, m being the match of line: a
\* line that matches no pattern is appended to the content of the last
\* message, if there is one.
TextStep(messages, line, m, nowv) ==
  IF m.ok THEN Append(messages, TextMessage(m.groups, nowv))
  ELSE IF messages # <<>>
  THEN [messages EXCEPT ![Len(messages)].content = @ \o "\n" \o Trim(line)]
  ELSE messages

RECURSIVE TextMessages(_, _, _)
TextMessages(lines, messages, nowv) ==
  IF lines = <<>> THEN messages
  ELSE TextMessages(Tail(lines),
                    TextStep(messages, Head(lines), MatchLine(Head(lines)), nowv),
                    nowv)

\* What parseTextData returns for the messages of the loop.
TextResult(messages, elapsed) ==
  [sessions |-> IF Len(messages) > 0
                THEN <<NewSession(ImportedSessionName, Len(messages), messages, FALSE)>>
                ELSE <<>>,
   totalMessages |-> Len(messages),
   parseTime |-> elapsed]

\* parseTextData(textContent)
ParseTextData(textContent, nowv, elapsed) ==
  TextResult(TextMessages(NonBlankLines(textContent), <<>>, nowv), elapsed)

-----------------------------------------------------------------------------
(* Relational extractor (utils/db-parser.ts) *)

\* A database is [tables |-> sequence of tables in sqlite_master order], a
\* table [name, columns (in table order), rows], a row a function from the
\* column names to SQL values (Null, Num or Str).  SQLite matches table and
\* column names of a query without regard to case.

UpperOf(c) ==
  CASE c = "a" -> "A" [] c = "b" -> "B" [] c = "c" -> "C" [] c = "d" -> "D"
    [] c = "e" -> "E" [] c = "f" -> "F" [] c = "g" -> "G" [] c = "h" -> "H"
    [] c = "i" -> "I" [] c = "j" -> "J" [] c = "k" -> "K" [] c = "l" -> "L"
    [] c = "m" -> "M" [] c = "n" -> "N" [] c = "o" -> "O" [] c = "p" -> "P"
    [] c = "q" -> "Q" [] c = "r" -> "R" [] c = "s" -> "S" [] c = "t" -> "T"
    [] c = "u" -> "U" [] c = "v" -> "V" [] c = "w" -> "W" [] c = "x" -> "X"
    [] c = "y" -> "Y" [] c = "z" -> "Z" [] OTHER -> c

\* s.toUpperCase()
RECURSIVE ToUpperCase(_)
ToUpperCase(s) ==
  IF s = "" THEN "" ELSE UpperOf(CharAt(s, 1)) \o ToUpperCase(Tail(s))

\* getMessageType(typeCode): typeMap[typeCode] || 'text'; a string indexes
\* the table by the decimal spelling of its keys.
GetMessageType(typeCode) ==
  LET is(n) == typeCode = Num(n) \/ typeCode = Str(IntToStr(n))
  IN CASE is(1) -> "text"
       [] is(3) -> "image"
       [] is(34) -> "voice"
       [] is(43) -> "video"
       [] is(47) -> "text"
       [] is(49) -> "file"
       [] is(10000) -> "system"
       [] is(10002) -> "system"
       [] OTHER -> "text"

\* The tables of db named name, whatever the case.
TablesNamed(db, name) ==
  SelectSeq(db.tables, LAMBDA t : ToLowerCase(t.name) = ToLowerCase(name))

\* The column of table t called col, whatever the case; "" when it has none.
ColumnNamed(t, col) ==
  IF \E i \in 1..Len(t.columns) : ToLowerCase(t.columns[i]) = ToLowerCase(col)
  THEN t.columns[CHOOSE i \in 1..Len(t.columns) :
                   ToLowerCase(t.columns[i]) = ToLowerCase(col)]
  ELSE ""

\* The candidate queries of extractContacts: table, user-name column,
\* display-name column, and whether rows with an empty display name are
\* filtered out by the query.
ContactQueries ==
  <<[table |-> "WCContact", user |-> "userName", nick |-> "nickName", nonEmpty |-> FALSE],
    [table |-> "Contact", user |-> "username", nick |-> "nickname", nonEmpty |-> FALSE],
    [table |-> "Friend", user |-> "UserName", nick |-> "NickName", nonEmpty |-> FALSE],
    [table |-> "rcontact", user |-> "username", nick |-> "alias", nonEmpty |-> TRUE]>>

\* The <<user, nick>> pairs of rows.
PairsOf(rows, u, n) == [i \in 1..Len(rows) |-> <<rows[i][u], rows[i][n]>>]

\* The rows a contact query returns from table t, u and n being the columns
\* of t it selects ("" when t has no such column: the query throws).
ContactPairs(t, u, n, nonEmpty) ==
  IF u = "" \/ n = "" THEN <<>>
  ELSE PairsOf(IF nonEmpty
               THEN SelectSeq(t.rows, LAMBDA r : r[n] # Null /\ r[n] # Str(""))
               ELSE t.rows,
               u, n)

ContactRowsOf(tables, q) ==
  IF tables = <<>> THEN <<>>
  ELSE ContactPairs(tables[1], ColumnNamed(tables[1], q.user),
                    ColumnNamed(tables[1], q.nick), q.nonEmpty)

\* db.exec(query): the rows as <<user, nick>> pairs; <<>> also stands for a
\* query that throws (no such table or column).
ContactRows(db, q) == ContactRowsOf(TablesNamed(db, q.table), q)

\* contacts.set(username, nickname)
SetContact(contacts, username, nickname) ==
  [key \in DOMAIN contacts \cup {username} |->
     IF key = username THEN nickname ELSE contacts[key]]

\* The contacts map after the rows: later rows overwrite earlier ones.
RECURSIVE ContactsOf(_, _)
ContactsOf(rows, contacts) ==
  IF rows = <<>> THEN contacts
  ELSE ContactsOf(Tail(rows),
                  IF Truthy(Head(rows)[1]) /\ Truthy(Head(rows)[2])
                  THEN SetContact(contacts, Head(rows)[1].v, Head(rows)[2].v)
                  ELSE contacts)

\* extractContacts(db): the first query that returns rows wins.
RECURSIVE ExtractContactsFrom(_, _)
RECURSIVE ContactsStep(_, _, _)
ExtractContactsFrom(db, queries) ==
  IF queries = <<>> THEN <<>>
  ELSE ContactsStep(db, queries, ContactRows(db, Head(queries)))
ContactsStep(db, queries, rows) ==
  IF rows # <<>> THEN ContactsOf(rows, <<>>)
  ELSE ExtractContactsFrom(db, Tail(queries))

ExtractContacts(db) == ExtractContactsFrom(db, ContactQueries)

\* contacts.get(key) || fallback
ContactOr(contacts, key, fallback) ==
  IF key \in DOMAIN contacts /\ contacts[key] # "" THEN contacts[key] ELSE fallback

\* columns.find(c => aliases.includes(c)) over the lower-cased column names:
\* the first column of the table that is one of the aliases; "" when none.
FindColumn(columns, aliases) ==
  IF \E i \in 1..Len(columns) : ToLowerCase(columns[i]) \in aliases
  THEN ToLowerCase(columns[MinOf({i \in 1..Len(columns) : ToLowerCase(columns[i]) \in aliases})])
  ELSE ""

\* 1e12, in units of 10^7: numbers above it are milliseconds.
MillisThreshold == 100000

\* LIMIT 100000
RowLimit == 100000

\* The value of column col (a lower-cased name, "" when the table has no
\* such column) in row r of table t.
Cell(t, r, col) == r[ColumnNamed(t, col)]

\* The value read for an optional column, missing when the table lacks it.
CellOr(t, r, col, missing) == IF col = "" THEN missing ELSE Cell(t, r, col)

\* v || d
OrDefault(v, d) == IF Truthy(v) THEN v ELSE d

\* timestamp of a row: Date.now() unless the time value is a number.
DbTimestamp(timeValue, nowv) ==
  IF timeValue.k = "number"
  THEN (IF timeValue.v > MillisThreshold THEN timeValue.v ELSE timeValue.v * 1000)
  ELSE nowv

\* The message pushed for the values read from a row: Null when the row has
\* no content, Thrown when content.trim() throws (a non-zero number).
DbRecord(content, timestamp, talker, type, isSelf, contacts) ==
  IF ~Truthy(content) THEN Null
  ELSE IF content.k # "string" THEN Thrown
  ELSE IF Trim(content.v) = "" THEN Null
  ELSE [id |-> GeneratedId,
        senderId |-> talker,
        senderName |-> IF isSelf THEN SelfName
                       ELSE ContactOr(contacts, talker,
                                      IF talker # "" THEN talker ELSE OtherName),
        content |-> content.v,
        timestamp |-> timestamp,
        type |-> GetMessageType(type),
        isSelf |-> isSelf]

\* The message of row r of table t.
DbMessage(t, r, contacts, nowv) ==
  DbRecord(
    Cell(t, r, FindColumn(t.columns, {"strcontent", "content", "message", "msg"})),
    DbTimestamp(
      CellOr(t, r, FindColumn(t.columns, {"createtime", "time", "timestamp",
                                         "msgcreatetime"}), Undefined),
      nowv),
    OrDefault(
      CellOr(t, r, FindColumn(t.columns, {"strtalker", "talker", "sender", "chatusr",
                                         "username"}), Str("")),
      Str("")).v,
    OrDefault(CellOr(t, r, FindColumn(t.columns, {"type", "msgtype", "msg_type"}), Num(1)),
              Num(1)),
    CellOr(t, r, FindColumn(t.columns, {"issend", "is_send", "issender"}), Num(0)) = Num(1),
    contacts)

\* The loop over the rows of one table: a row that throws ends the table,
\* the messages pushed before it staying.
RECURSIVE DbTableMessages(_, _, _, _)
RECURSIVE DbTableStep(_, _, _, _, _)
DbTableMessages(t, rows, contacts, nowv) ==
  IF rows = <<>> THEN <<>>
  ELSE DbTableStep(t, rows, DbMessage(t, Head(rows), contacts, nowv), contacts, nowv)
DbTableStep(t, rows, m, contacts, nowv) ==
  IF m = Thrown THEN <<>>
  ELSE Kept(m) \o DbTableMessages(t, Tail(rows), contacts, nowv)

\* Whether extractMessages reads table name.
IsMessageTable(name) ==
  \/ Includes(ToUpperCase(name), "MSG")
  \/ StartsWith(ToUpperCase(name), "CHAT_")
  \/ ToLowerCase(name) = "message"

\* The rows SELECT ... LIMIT 100000 returns from table t.
LimitedRows(t) ==
  IF Len(t.rows) > RowLimit THEN SubSeq(t.rows, 1, RowLimit) ELSE t.rows

\* extractMessages(db, contacts)
RECURSIVE ExtractMessagesFrom(_, _, _)
ExtractMessagesFrom(tables, contacts, nowv) ==
  IF tables = <<>> THEN <<>>
  ELSE (IF /\ IsMessageTable(Head(tables).name)
           /\ FindColumn(Head(tables).columns,
                         {"strcontent", "content", "message", "msg"}) # ""
        THEN DbTableMessages(Head(tables), LimitedRows(Head(tables)), contacts, nowv)
        ELSE <<>>)
       \o ExtractMessagesFrom(Tail(tables), contacts, nowv)

ExtractMessages(db, contacts, nowv) == ExtractMessagesFrom(db.tables, contacts, nowv)

\* msg.senderId || 'unknown'
DbGroupKey(msg) == IF msg.senderId # "" THEN msg.senderId ELSE "unknown"

\* The grouping loop of parseDbFile: sessionMap in insertion order.
RECURSIVE DbGroups(_, _)
DbGroups(messages, groups) ==
  IF messages = <<>> THEN groups
  ELSE DbGroups(Tail(messages),
                AddToGroup(groups, DbGroupKey(Head(messages)), Head(messages)))

\* content.substring(0, 50)
PreviewLen == 50
Preview(v) ==
  IF v.k # "string" \/ Len(v.v) <= PreviewLen THEN v ELSE Str(SubSeq(v.v, 1, PreviewLen))

\* The session of one talker, msgs being its sorted messages.
DbSessionOf(g, msgs, contacts) ==
  [id |-> GeneratedId,
   name |-> ContactOr(contacts, g.key, g.key),
   avatar |-> Undefined,
   messageCount |-> Len(msgs),
   messages |-> msgs,
   lastMessage |-> Preview(LastContent(msgs)),
   lastMessageTime |-> LastTimestamp(msgs),
   isGroup |-> Includes(g.key, "@chatroom")]

DbSession(g, contacts) == DbSessionOf(g, SortByTimestamp(g.messages), contacts)

\* The sessions of sessionMap, sorted by recency.
DbSessions(groups, contacts) ==
  SortByRecency([i \in 1..Len(groups) |-> DbSession(groups[i], contacts)])

\* A faulty variant: the total counts the sessions.
DbResultCountingSessions(sessions, elapsed) ==
  [sessions |-> sessions,
   totalMessages |-> Len(sessions),
   parseTime |-> elapsed]

\* What parseDbFile returns for the sessions.
DbResult(sessions, elapsed) ==
  [sessions |-> sessions,
   totalMessages |-> SumMessages(sessions),
   parseTime |-> elapsed]

\* parseDbFile once the contacts are extracted.
DbParsed(db, contacts, nowv, elapsed) ==
  DbResult(DbSessions(DbGroups(ExtractMessages(db, contacts, nowv), <<>>), contacts),
           elapsed)

\* parseDbFile(buffer), db being what sql.js opens from the buffer, or
\* Thrown when it cannot be opened: the call then throws.
ParseDbFile(db, nowv, elapsed) ==
  IF db = Thrown THEN Thrown
  ELSE DbParsed(db, ExtractContacts(db), nowv, elapsed)

-----------------------------------------------------------------------------
(* Media recovery (utils/date.ts) *)

\* a ^ b on bytes
RECURSIVE Xor(_, _)
Xor(a, b) ==
  IF a = 0 THEN b
  ELSE IF b = 0 THEN a
  ELSE ((a + b) % 2) + 2 * Xor(a \div 2, b \div 2)

\* The magic bytes tried, in order.
ImageHeaders ==
  <<[prefix |-> <<255, 216>>, extension |-> "jpg", mime |-> "image/jpeg"],
    [prefix |-> <<137, 80>>, extension |-> "png", mime |-> "image/png"],
    [prefix |-> <<71, 73>>, extension |-> "gif", mime |-> "image/gif"]>>

\* A faulty variant of DecryptWith: the key found from the first byte is not
\* verified on the second.
DecryptWithUnverifiedKey(buffer, h) ==
  [bytes |-> [i \in 1..Len(buffer) |->
                Xor(buffer[i], Xor(buffer[1], ImageHeaders[h].prefix[1]))],
   mime |-> ImageHeaders[h].mime,
   extension |-> ImageHeaders[h].extension]

\* The loop over the headers from index h on.
RECURSIVE DecryptWith(_, _)
DecryptWith(buffer, h) ==
  IF h > Len(ImageHeaders) THEN Null
  ELSE LET header == ImageHeaders[h]
           key == Xor(buffer[1], header.prefix[1])
       IN IF Xor(buffer[2], header.prefix[2]) = key
          THEN [bytes |-> [i \in 1..Len(buffer) |-> Xor(buffer[i], key)],
                mime |-> header.mime,
                extension |-> header.extension]
          ELSE DecryptWith(buffer, h + 1)

\* A faulty variant of decryptDatImage: the length test is off by one.
DecryptDatImageOffByOne(buffer) ==
  IF Len(buffer) <= 2 THEN Null ELSE DecryptWith(buffer, 1)

\* decryptDatImage(buffer): the decoded blob and its extension, or Null.
DecryptDatImage(buffer) ==
  IF Len(buffer) < 2 THEN Null ELSE DecryptWith(buffer, 1)

-----------------------------------------------------------------------------
(* JSON.parse, as far as the files of the model need it: objects, arrays,  *)
(* strings without escapes, integers, true, false and null                 *)

\* s.endsWith(p)
EndsWith(s, p) == Len(p) <= Len(s) /\ SubSeq(s, Len(s) - Len(p) + 1, Len(s)) = p

\* A text that is no JSON.
NoJson == [ok |-> FALSE]

\* The value v read from a text, i being the index after it.
Read(v, i) == [ok |-> TRUE, v |-> v, i |-> i]

\* The index of the first character of s from i on that is no white space.
RECURSIVE SkipSpace(_, _)
SkipSpace(s, i) == IF IsCharAt(s, i, WhiteSpace) THEN SkipSpace(s, i + 1) ELSE i

\* The index after the digits of s that start at i.
RECURSIVE SkipDigits(_, _)
SkipDigits(s, i) == IF IsDigitAt(s, i) THEN SkipDigits(s, i + 1) ELSE i

\* The index of the double quote that closes the string whose characters
\* start at i, 0 when the string is not closed on its line.
RECURSIVE ClosingQuote(_, _)
ClosingQuote(s, i) ==
  IF i > Len(s) \/ CharAt(s, i) \in {"\n", "\r", "\t", "\\"} THEN 0
  ELSE IF CharAt(s, i) = "\"" THEN i
  ELSE ClosingQuote(s, i + 1)

\* The string literal whose opening quote is at i.
JsonString(s, i, close) ==
  IF close = 0 THEN NoJson ELSE Read(Str(SubSeq(s, i + 1, close - 1)), close + 1)

\* The integer literal that starts at i (a minus sign or a digit), its
\* digits starting at d and ending before e.
JsonNumber(s, i, d, e) ==
  IF e = d \/ (e > d + 1 /\ CharAt(s, d) = "0") \/ IsCharAt(s, e, {".", "e", "E"})
  THEN NoJson
  ELSE Read(Num((IF d > i THEN -1 ELSE 1) * ParseInt(SubSeq(s, d, e - 1)).v), e)

\* The literal word at i, standing for v.
JsonWord(s, i, word, v) ==
  IF SubSeq(s, i, i + Len(word) - 1) = word THEN Read(v, i + Len(word)) ELSE NoJson

\* The object of the members pairs, a later member replacing an earlier one
\* of the same key, the keys staying in the order of their first member.
FirstMembers(pairs) ==
  SelectSeq([i \in 1..Len(pairs) |-> i],
            LAMBDA i : \A j \in 1..(i - 1) : pairs[j][1] # pairs[i][1])

ObjectWithKeys(pairs, first) ==
  Obj([n \in 1..Len(first) |-> pairs[first[n]][1]],
      [key \in {pairs[i][1] : i \in 1..Len(pairs)} |->
         pairs[MaxOf({i \in 1..Len(pairs) : pairs[i][1] = key})][2]])

ObjectOfMembers(pairs) == ObjectWithKeys(pairs, FirstMembers(pairs))

RECURSIVE JsonValue(_, _)
RECURSIVE JsonElements(_, _, _)
RECURSIVE JsonMembers(_, _, _)
RECURSIVE JsonMember(_, _, _)

\* After an element of an array, at i: a comma and the next one, or the end.
JsonElementsAfter(s, i, acc) ==
  IF IsCharAt(s, i, {","}) THEN JsonElements(s, i + 1, acc)
  ELSE IF IsCharAt(s, i, {"]"}) THEN Read(Arr(acc), i + 1)
  ELSE NoJson

\* The elements of an array from i on, acc being those read so far.
JsonElementRead(s, r, acc) ==
  IF r.ok THEN JsonElementsAfter(s, SkipSpace(s, r.i), Append(acc, r.v)) ELSE NoJson

JsonElements(s, i, acc) == JsonElementRead(s, JsonValue(s, i), acc)

\* After a member of an object, at i: a comma and the next one, or the end.
JsonMembersAfter(s, i, acc) ==
  IF IsCharAt(s, i, {","}) THEN JsonMembers(s, SkipSpace(s, i + 1), acc)
  ELSE IF IsCharAt(s, i, {"}"}) THEN Read(ObjectOfMembers(acc), i + 1)
  ELSE NoJson

\* The member whose key and colon are read, its value being r.
JsonMemberRead(s, key, r, acc) ==
  IF r.ok THEN JsonMembersAfter(s, SkipSpace(s, r.i), Append(acc, <<key, r.v>>))
  ELSE NoJson

\* The member whose key is the string literal key, at the colon if any.
JsonMemberOf(s, key, acc, colon) ==
  IF IsCharAt(s, colon, {":"})
  THEN JsonMemberRead(s, key.v.v, JsonValue(s, colon + 1), acc)
  ELSE NoJson

JsonMember(s, key, acc) ==
  IF key.ok THEN JsonMemberOf(s, key, acc, SkipSpace(s, key.i)) ELSE NoJson

\* The members of an object from i on (no white space at i), acc being
\* those read so far.
JsonMembers(s, i, acc) ==
  IF IsCharAt(s, i, {"\""}) THEN JsonMember(s, JsonString(s, i, ClosingQuote(s, i + 1)), acc)
  ELSE NoJson

\* The value that starts at i, no white space being at i.
JsonValueAt(s, i) ==
  IF i > Len(s) THEN NoJson
  ELSE IF CharAt(s, i) = "{" THEN
    (IF IsCharAt(s, SkipSpace(s, i + 1), {"}"})
     THEN Read(ObjectOfMembers(<<>>), SkipSpace(s, i + 1) + 1)
     ELSE JsonMembers(s, SkipSpace(s, i + 1), <<>>))
  ELSE IF CharAt(s, i) = "[" THEN
    (IF IsCharAt(s, SkipSpace(s, i + 1), {"]"})
     THEN Read(Arr(<<>>), SkipSpace(s, i + 1) + 1)
     ELSE JsonElements(s, i + 1, <<>>))
  ELSE IF CharAt(s, i) = "\"" THEN JsonString(s, i, ClosingQuote(s, i + 1))
  ELSE IF CharAt(s, i) = "-" THEN JsonNumber(s, i, i + 1, SkipDigits(s, i + 1))
  ELSE IF CharAt(s, i) \in Digits THEN JsonNumber(s, i, i, SkipDigits(s, i))
  ELSE IF CharAt(s, i) = "t" THEN JsonWord(s, i, "true", Bool(TRUE))
  ELSE IF CharAt(s, i) = "f" THEN JsonWord(s, i, "false", Bool(FALSE))
  ELSE IF CharAt(s, i) = "n" THEN JsonWord(s, i, "null", Null)
  ELSE NoJson

JsonValue(s, i) == JsonValueAt(s, SkipSpace(s, i))

\* JSON.parse(text) when r is the value read at the start of text: the
\* value, or Thrown (a SyntaxError) when there is none or text goes on.
JsonParsed(text, r) ==
  IF r.ok /\ SkipSpace(text, r.i) > Len(text) THEN r.v ELSE Thrown

\* JSON.parse(text)
JsonParse(text) == JsonParsed(text, JsonValue(text, 1))

-----------------------------------------------------------------------------
(* Format detection (utils/parser.ts, parseFile)                           *)
(*                                                                         *)
(* A file is a record of its name and of what each way of reading it       *)
(* gives: text is file.text(), bytes is file.arrayBuffer(), and db is the  *)
(* database sql.js opens from the bytes, Thrown when it cannot open them.  *)

\* { sessions: [], totalMessages: 0, parseTime: 0 }
EmptyParsedData == [sessions |-> <<>>, totalMessages |-> 0, parseTime |-> 0]

\* The sessions, totalMessages and parseTime of what a normaliser returned.
ParsedDataOf(r) ==
  [sessions |-> r.sessions, totalMessages |-> r.totalMessages, parseTime |-> r.parseTime]

\* try { return parseJsonData(JSON.parse(text)) } catch { return otherwise },
\* jsonData being what JSON.parse gives.
ParseJsonOr(jsonData, nowv, elapsed, otherwise) ==
  IF jsonData = Thrown THEN otherwise
  ELSE ParsedDataOf(ParseJsonData(jsonData, nowv, elapsed))

\* trimmed.includes(',') && trimmed.split('\n')[0].split(',').length > 2
LooksLikeCsv(trimmed) ==
  Includes(trimmed, ",") /\ Len(Split(Split(trimmed, "\n")[1], ",")) > 2

\* The last two probes of parseFile: CSV, then plain text.
ParseCsvOrText(text, trimmed, nowv, elapsed) ==
  IF LooksLikeCsv(trimmed) THEN ParsedDataOf(ParseCsvData(text, nowv, elapsed))
  ELSE ParsedDataOf(ParseTextData(text, nowv, elapsed))

\* The probes of parseFile for a name that is neither .json nor .csv.
ParseProbed(text, trimmed, nowv, elapsed) ==
  IF StartsWith(trimmed, "{") \/ StartsWith(trimmed, "[")
  THEN ParseJsonOr(JsonParse(text), nowv, elapsed,
                   ParseCsvOrText(text, trimmed, nowv, elapsed))
  ELSE ParseCsvOrText(text, trimmed, nowv, elapsed)

\* A faulty variant of ParseNamed: the extension is not looked at and every
\* file is probed by its content.
ParseNamedByContentOnly(fileName, text, nowv, elapsed) ==
  ParseProbed(text, Trim(text), nowv, elapsed)

\* parseFile on the text of the file and its lower-cased name.
ParseNamed(fileName, text, nowv, elapsed) ==
  IF EndsWith(fileName, ".json")
  THEN ParseJsonOr(JsonParse(text), nowv, elapsed, EmptyParsedData)
  ELSE IF EndsWith(fileName, ".csv")
  THEN ParsedDataOf(ParseCsvData(text, nowv, elapsed))
  ELSE ParseProbed(text, Trim(text), nowv, elapsed)

\* parseFile(file)
ParseFile(file, nowv, elapsed) ==
  ParseNamed(ToLowerCase(file.name), file.text, nowv, elapsed)

-----------------------------------------------------------------------------
(* Database detection (utils/db-parser.ts) *)

\* "SQLite format 3\0"
SqliteHeader == <<83, 81, 76, 105, 116, 101, 32, 102, 111, 114, 109, 97, 116, 32, 51, 0>>

\* A faulty variant: only the bytes the buffer has are compared.
IsValidSqliteDbUpToLength(buffer) ==
  \A i \in 1..Len(SqliteHeader) : i > Len(buffer) \/ buffer[i] = SqliteHeader[i]

\* isValidSqliteDb(buffer): a byte the buffer lacks is undefined and differs.
IsValidSqliteDb(buffer) ==
  \A i \in 1..Len(SqliteHeader) : i <= Len(buffer) /\ buffer[i] = SqliteHeader[i]

\* isEncryptedDb(buffer)
IsEncryptedDb(buffer) == ~IsValidSqliteDb(buffer)

-----------------------------------------------------------------------------
(* The upload handler of the application (App.tsx)                         *)
(*                                                                         *)
(* handleFileUpload is asynchronous. An invocation is a record of its      *)
(* local variables and of its position: pc is "media" in the first loop    *)
(* (the .dat files), "data" in the second, "done" after the finally        *)
(* block, and pos is the index of the file of the next iteration. One      *)
(* step of the model is one iteration of a loop, or the code after a loop. *)
(* The handler runs without interruption up to an await, so a step of one  *)
(* invocation, and the start of another handler, wait until every other    *)
(* invocation is suspended at a file read or done.                         *)
(* The states of the search box, of the message filter and of the view     *)
(* mode are left out.                                                      *)

\* fileName.endsWith(ext), fileName being the lower-cased name of the file
HasExtension(file, ext) == EndsWith(ToLowerCase(file.name), ext)

\* file.name.substring(0, file.name.lastIndexOf('.')), the name having a dot
Stem(name) == SubSeq(name, 1, MaxOf({i \in 1..Len(name) : CharAt(name, i) = "."}) - 1)

\* The error messages handleFileUpload sets.
EncryptedDbMessage(name) == [error |-> "<jiami-shujuku>", file |-> name]
DbFailedMessage == [error |-> "<jiexi-shujuku-shibai>"]

\* newMediaMap[file.name] = url; newMediaMap[stem] = url
WithMedia(map, name, url) ==
  [key \in DOMAIN map \cup {name, Stem(name)} |->
     IF key \in {name, Stem(name)} THEN url ELSE map[key]]

\* The urls a media map holds: Object.values(mediaMap).
UrlsOf(map) == {map[key] : key \in DOMAIN map}

\* A faulty variant: the sessions of the file go in front.
MergeInFront(results, parsed) ==
  [sessions |-> parsed.sessions \o results.sessions,
   totalMessages |-> results.totalMessages + parsed.totalMessages,
   parseTime |-> results.parseTime + parsed.parseTime]

\* results.sessions.push(...parsed.sessions); results.totalMessages +=
\* parsed.totalMessages; results.parseTime += parsed.parseTime
Merge(results, parsed) ==
  [sessions |-> results.sessions \o parsed.sessions,
   totalMessages |-> results.totalMessages + parsed.totalMessages,
   parseTime |-> results.parseTime + parsed.parseTime]

\* The updater passed to setData: prev => ...
MergedData(prev, results) ==
  IF prev = Null THEN results
  ELSE [sessions |-> prev.sessions \o results.sessions,
        totalMessages |-> prev.totalMessages + results.totalMessages,
        parseTime |-> prev.parseTime + results.parseTime]

\* A faulty variant: a batch without sessions clears the held data.
DataAfterClearing(prev, results) ==
  IF Len(results.sessions) > 0 THEN MergedData(prev, results) ELSE Null

\* The held data after the batch: if (results.sessions.length > 0) setData(...)
DataAfter(prev, results) ==
  IF Len(results.sessions) > 0 THEN MergedData(prev, results) ELSE prev

\* The selected session after the batch, held being the data the handler
\* was created with.
SelectedAfter(selected, results, held) ==
  IF Len(results.sessions) = 1 /\ held = Null THEN results.sessions[1] ELSE selected

\* The outcome of the iteration of the second loop on a .db file: the
\* results of the batch and the error message, parsed being what
\* parseDbFile gives for a buffer that is a database.
DbFileOutcome(file, results, message, parsed) ==
  IF IsEncryptedDb(file.bytes)
  THEN [results |-> results, message |-> EncryptedDbMessage(file.name)]
  ELSE IF parsed = Thrown
  THEN [results |-> results, message |-> DbFailedMessage]
  ELSE [results |-> Merge(results, parsed), message |-> message]

\* What the normaliser of a file that is no .dat file gives: parseDbFile on
\* the buffer of a .db file, parseFile on any other file.
NormaliserResult(file, nowv, elapsed) ==
  IF HasExtension(file, ".db") THEN ParseDbFile(file.db, nowv, elapsed)
  ELSE ParseFile(file, nowv, elapsed)

\* A faulty variant: the failure of a database is not caught, the handler
\* leaves the loop and the batch is lost.
DataFileOutcomeUncaught(file, results, message, parsed) ==
  IF HasExtension(file, ".db") /\ ~IsEncryptedDb(file.bytes) /\ parsed = Thrown
  THEN [results |-> EmptyParsedData, message |-> DbFailedMessage]
  ELSE IF HasExtension(file, ".db") THEN DbFileOutcome(file, results, message, parsed)
  ELSE [results |-> Merge(results, parsed), message |-> message]

\* The outcome of one iteration of the second loop on a file that is no
\* .dat file, parsed being what its normaliser gives.
DataFileOutcome(file, results, message, parsed) ==
  IF HasExtension(file, ".db") THEN DbFileOutcome(file, results, message, parsed)
  ELSE [results |-> Merge(results, parsed), message |-> message]

\* The invocation is suspended at an await: the read of a .dat file in the
\* first loop, the read of another file in the second.
AtAwait(call) ==
  /\ call.pc \in {"media", "data"}
  /\ call.pos <= Len(call.files)
  /\ (call.pc = "media") = HasExtension(call.files[call.pos], ".dat")

-----------------------------------------------------------------------------
(* Inputs of the model *)

\* The sequences over S of length at most n.
SeqsUpTo(S, n) == UNION {[1..m -> S] : m \in 0..n}

MaxMsgs == 3
MaxSessions == 2

\* What one call observes of its environment: Date.now() (the clock does not
\* advance during a call, at the model's resolution) and the duration the
\* two performance.now() readings give.
Clocks == {[now |-> 170000, elapsed |-> 0], [now |-> 172000, elapsed |-> 1]}

\* A message object with the given content, time stamp and talker fields; a
\* field whose value is Undefined is absent.
MsgObj(content, createTime, talker) ==
  ObjOf(SelectSeq(<<<<"content", content>>, <<"CreateTime", createTime>>,
                    <<"StrTalker", talker>>>>,
                  LAMBDA p : p[2] # Undefined))

\* The elements of the arrays of messages: messages in seconds and in
\* milliseconds, with and without time stamp, of two talkers, and records
\* that are dropped.
JsonElems ==
  {MsgObj(Str("hi"), t, Str(w)) : t \in {Undefined, Num(171), Num(170500)},
                                  w \in {"a", "b@chatroom"}}
  \cup {MsgObj(Str("yo"), Num(171), Str("a")),
        MsgObj(Str(""), Num(169), Str("a")),
        Null, Num(5)}

TypeCodes == {-1, 0, 1, 2, 3, 34, 42, 43, 47, 48, 49, 50, 9999, 10000, 10001, 10002}

TypeWords ==
  {"image", "voice", "audio", "video", "file", "system", "text", "Image", "img",
   "voice-image", "audio/video", "video file", "systemfile", "my system", "3 image",
   " 3", "3x"}

TimeValues == {-1, 0, 1, 170, 999, 1000, 1001, 170000, 171000}

\* One message object per value of one field, the content being present.
WideElems ==
  {ObjOf(<<<<"content", Str("hi")>>, <<"CreateTime", Num(t)>>>>) : t \in TimeValues}
  \cup {ObjOf(<<<<"content", Str("hi")>>, <<"CreateTime", Num(0)>>,
               <<"timestamp", Num(t)>>>>) : t \in {0, 5}}
  \cup {ObjOf(<<<<"content", Str("hi")>>, <<"timestamp", Str(d)>>>>) :
          d \in {"170", "170000", "0", "", "soon", "Nov 14 2023 22:13:20 GMT"}}
  \cup {ObjOf(<<<<"content", Str("hi")>>, <<"Type", Num(c)>>>>) : c \in TypeCodes}
  \cup {ObjOf(<<<<"content", Str("hi")>>, <<"type", Str(IntToStr(c))>>>>) :
          c \in TypeCodes}
  \cup {ObjOf(<<<<"content", Str("hi")>>, <<"msgType", Str(w)>>>>) : w \in TypeWords}
  \cup {ObjOf(<<<<"StrContent", c>>, <<"text", Str("t")>>>>) :
          c \in {Str("s"), Str(""), Num(0), Num(7), Null, Arr(<<>>), Arr(<<Num(1), Null>>),
                 Bool(TRUE), Bool(FALSE)}}
  \cup {ObjOf(<<<<"msg", Str("hi")>>, <<"IsSend", v>>, <<"isSend", Num(1)>>>>) :
          v \in {Num(1), Num(0), Str("1"), Bool(TRUE), Null}}
  \cup {ObjOf(<<<<"Content", Str("hi")>>, <<"NickName", Str(n)>>, <<"wxid", Str("a")>>>>) :
          n \in {"Al", "", OtherName}}

MessageArrays == SeqsUpTo(JsonElems, MaxMsgs) \cup {<<e>> : e \in WideElems}

FlatArrayInputs == {Arr(a) : a \in MessageArrays}

SessionObjectInputs ==
  {ObjOf(<<<<"messages", Arr(a)>>>>) : a \in MessageArrays}
  \cup {ObjOf(<<<<"chatList", Arr(a)>>, <<"name", Str("Bob")>>, <<"chatType", Str("group")>>>>) :
          a \in SeqsUpTo(JsonElems, 1)}
  \cup {ObjOf(<<<<"messages", v>>, <<"chat", Arr(<<MsgObj(Str("hi"), Num(171), Str("a"))>>)>>>>) :
          v \in {Str("x"), Str(""), Null, Num(0), Num(5), Arr(<<>>)}}

\* The elements of an array of session objects.
SessionElems ==
  {ObjOf(<<<<"messages", Arr(a)>>>>) : a \in SeqsUpTo(JsonElems, 1)}
  \cup {ObjOf(<<<<"messages", Str("x")>>>>), ObjOf(<<<<"name", Str("Bob")>>>>),
        Null, Num(5)}

SessionArrayInputs == {Arr(a) : a \in SeqsUpTo(SessionElems, MaxSessions)}

KeyedElems ==
  {MsgObj(Str("hi"), Num(171), Str("a")), MsgObj(Str("yo"), Num(170), Str("b")),
   MsgObj(Str(""), Num(169), Str("a")), Null}

KeyedObjectInputs ==
  {ObjOf(<<<<"alice", Arr(a)>>>>) : a \in SeqsUpTo(KeyedElems, MaxMsgs)}
  \cup {ObjOf(<<<<"alice", Arr(a)>>, <<"bob", v>>>>) :
          a \in SeqsUpTo(KeyedElems, MaxMsgs),
          v \in {Arr(<<>>), Arr(<<MsgObj(Str("yo"), Num(170), Str("b"))>>), Str("x")}}

\* A message object with content "hi" and the given talker, nickname, self
\* flag and time stamp fields; a field whose value is Undefined is absent.
TalkerObj(talker, nickName, isSelf, createTime) ==
  ObjOf(SelectSeq(<<<<"content", Str("hi")>>, <<"StrTalker", talker>>,
                    <<"NickName", nickName>>, <<"isSelf", isSelf>>,
                    <<"CreateTime", createTime>>>>,
                  LAMBDA p : p[2] # Undefined))

\* Flat arrays of the messages of three talkers: one without talker id, one
\* whose id is the word the code files a message without id under.
TalkerElems ==
  {TalkerObj(w, Undefined, Undefined, t) :
     w \in {Undefined, Str("a"), Str("unknown")}, t \in {Num(170), Num(171)}}

GroupingInputs == {Arr(a) : a \in SeqsUpTo(TalkerElems, MaxMsgs)}

\* The messages of one talker: sent by the user or not, without nickname or
\* with one that is a name, the talker id, or the word "unknown".
NamedElems(talker) ==
  {TalkerObj(talker, n, self, Undefined) :
     n \in {Undefined, Str("Al"), Str("Bo"), Str("a"), Str("unknown")},
     self \in {Undefined, Bool(TRUE)}}

NamingInputs ==
  {Arr(a) : a \in SeqsUpTo(NamedElems(Undefined), MaxMsgs)
                  \cup SeqsUpTo(NamedElems(Str("a")), MaxMsgs)}

JsonInputs ==
  FlatArrayInputs \cup SessionObjectInputs \cup SessionArrayInputs
  \cup KeyedObjectInputs \cup GroupingInputs \cup NamingInputs
  \cup {Null, Num(5), Str("x"), ObjOf(<<>>)}

\* The strings of exactly n tokens of T, and of at most n.
RECURSIVE TokenStrings(_, _)
TokenStrings(T, n) ==
  IF n = 0 THEN {""} ELSE {s \o c : s \in TokenStrings(T, n - 1), c \in T}
StringsUpTo(T, n) == UNION {TokenStrings(T, m) : m \in 0..n}

\* lines.join(sep)
RECURSIVE Join(_, _)
Join(lines, sep) ==
  IF lines = <<>> THEN ""
  ELSE IF Len(lines) = 1 THEN lines[1]
  ELSE lines[1] \o sep \o Join(Tail(lines), sep)

MaxCsvBody == 5
MaxRows == 2

CsvAlphabet == {"a", ",", "\"", " ", "\n"}

CsvSampleRows ==
  {"hi,171,a", "yo,170500,a", "hey,170,b@chatroom", "late,,b@chatroom", ",171,a",
   "short,171", "\"x,y\",169,a", "ok,172,"}

CsvInputs ==
  {"content,createtime,strtalker\n" \o body : body \in StringsUpTo(CsvAlphabet, MaxCsvBody)}
  \cup {Join(<<"Content, CreateTime ,StrTalker">> \o rows, "\n") :
          rows \in SeqsUpTo(CsvSampleRows, MaxRows)}
  \cup {"content,type\nhi," \o IntToStr(c) : c \in TypeCodes}
  \cup {"content,msgtype\nhi," \o w : w \in TypeWords}
  \cup {"content,time\nhi," \o IntToStr(t) : t \in TimeValues}
  \cup {"msg,issend,nickname\nhi," \o v \o "," \o n :
          v \in {"1", "0", "TRUE", "Yes", "no", SentMarker}, n \in {"", "Al"}}
  \cup {"", "content", "content\n \n", "content,content\nx,y\n"}

\* The values parseTimestamp is called on by itself: strings of digits with
\* and without a sign or a tail, date strings, strings that are neither,
\* numbers, and values that are neither strings nor numbers.
MaxStampLen == 3

StampStrings ==
  StringsUpTo({"1", "7", "0"}, MaxStampLen)
  \cup {sign \o d \o tail : sign \in {"-", "+", " "}, d \in {"17", "171000"},
                            tail \in {"", "px"}}
  \cup JanuaryDateTimes
  \cup {"Nov 14 2023 22:13:20 GMT", "soon", " "}

TimestampInputs ==
  {Str(x) : x \in StampStrings}
  \cup {Num(t) : t \in TimeValues}
  \cup {Undefined, Null, Bool(TRUE)}

\* The lines parseCsvLine is called on by itself.
MaxLineLen == 5

LineAlphabet == {"a", ",", "\"", " "}

CsvLineInputs == StringsUpTo(LineAlphabet, MaxLineLen)

MaxTokens == 4
MaxLines == 2

TextTokens == {"[", "]", ":", " ", "a", "\n", "2024-01-15 10:30 "}

TextSampleLines ==
  {"[171000] a: hi", "[170000] me; yo", "[Nov 14 2023 22:13:20 GMT] b: x",
   "2024-01-15 10:30:45 a: hi", "2024/01/15  10:30 <wo>;hi", "a: hi", "a: ", "a:\r",
   "and more", "[soon] a : b : c"}

\* Lines of longer texts: two that match a pattern, two that match none.
MaxTextLines == 4

ContinuationLines == {"a: hi", "[171000] b: yo", " and more ", "the end"}

TextInputs ==
  StringsUpTo(TextTokens, MaxTokens)
  \cup {Join(lines, "\n") : lines \in SeqsUpTo(TextSampleLines, MaxLines)}
  \cup {Join(lines, "\n") : lines \in SeqsUpTo(ContinuationLines, MaxTextLines)}

MaxDbRows == 2

\* The values of the five logical columns of a message row.
DbRowValues(content, time, talker, type, isSend) ==
  [content |-> content, time |-> time, talker |-> talker, type |-> type, isSend |-> isSend]

DbSampleRows ==
  {DbRowValues(Str("hi"), Num(171), Str("a"), Num(1), Num(0)),
   DbRowValues(Str("yo"), Num(170500), Str("a"), Num(3), Num(1)),
   DbRowValues(Str("hey"), Num(170), Str("b@chatroom"), Num(49), Num(0)),
   DbRowValues(Str("late"), Null, Null, Null, Null),
   DbRowValues(Str(""), Num(171), Str("a"), Num(1), Num(0)),
   DbRowValues(Str("  "), Num(171), Str("a"), Num(1), Num(0)),
   DbRowValues(Null, Num(171), Str("a"), Num(1), Num(0)),
   DbRowValues(Num(7), Num(171), Str("a"), Num(1), Num(0))}

\* A table of the given name whose columns carry the given logical columns,
\* with one row per element of values.
DbTable(name, columns, roles, values) ==
  [name |-> name,
   columns |-> columns,
   rows |-> [i \in 1..Len(values) |->
               [c \in {columns[j] : j \in 1..Len(columns)} |->
                  values[i][roles[CHOOSE j \in 1..Len(columns) : columns[j] = c]]]]]

FullColumns == <<"localId", "StrTalker", "CreateTime", "Type", "IsSend", "StrContent">>
FullRoles == <<"isSend", "talker", "time", "type", "isSend", "content">>

DbMessageTables ==
  UNION {{DbTable("MSG", FullColumns, FullRoles, v),
          DbTable("Chat_1", <<"Message", "Sender">>, <<"content", "talker">>, v),
          DbTable("message", <<"Talker", "Time">>, <<"talker", "time">>, v),
          DbTable("Session", FullColumns, FullRoles, v)} :
         v \in SeqsUpTo(DbSampleRows, MaxDbRows)}

DbContactTables ==
  {<<>>,
   <<[name |-> "contact", columns |-> <<"UserName", "NickName">>,
      rows |-> <<[UserName |-> Str("a"), NickName |-> Str("Al")],
                 [UserName |-> Str("b@chatroom"), NickName |-> Str("")]>>]>>,
   <<[name |-> "WCContact", columns |-> <<"userName", "nickName">>, rows |-> <<>>],
     [name |-> "rcontact", columns |-> <<"username", "alias">>,
      rows |-> <<[username |-> Str("a"), alias |-> Str("")],
                 [username |-> Str("b@chatroom"), alias |-> Str("Team")]>>]>>}

DbWideTables ==
  {DbTable("MSG", <<"StrContent", "Type">>, <<"content", "type">>,
           <<DbRowValues(Str("hi"), Null, Null, c, Null)>>) :
     c \in {Num(n) : n \in TypeCodes} \cup {Str(IntToStr(n)) : n \in TypeCodes}}
  \cup {DbTable("MSG", <<"StrContent", "CreateTime">>, <<"content", "time">>,
                <<DbRowValues(Str("hi"), t, Null, Null, Null)>>) :
          t \in {Num(n) : n \in TimeValues \cup {99999, 100000, 100001}} \cup {Str("171")}}

DbInputs ==
  {[tables |-> c \o <<t>> \o more] :
     c \in DbContactTables, t \in DbMessageTables,
     more \in {<<>>,
               <<DbTable("wx_msg_1", <<"msg", "chatusr">>, <<"content", "talker">>,
                         <<DbRowValues(Str("old"), Null, Str("a"), Null, Null)>>)>>}}
  \cup {[tables |-> <<t>>] : t \in DbWideTables}
  \cup {[tables |-> <<>>], Thrown}

MaxTail == 1

Byte == 0..255
DatTailBytes == {0, 90, 255}
DatTailFirst == {0, 71, 137, 165, 255}

\* Every buffer of at most two bytes, and longer ones.
DatInputs ==
  SeqsUpTo(Byte, 2)
  \cup {<<b0, b1>> \o tail : b0 \in DatTailFirst, b1 \in Byte,
                            tail \in SeqsUpTo(DatTailBytes, MaxTail) \ {<<>>}}

MaxCode == 60

\* The type codes the tables are asked about: the small codes, and the
\* codes around the system ones.
CodeValues == (-1..MaxCode) \cup {9999, 10000, 10001, 10002}

\* parseMessageObject passes numbers and digit strings to parseMessageType.
JsonCodeInputs ==
  {Num(c) : c \in CodeValues} \cup {Str(IntToStr(c)) : c \in CodeValues \ {-1}}

\* parseCsvData passes what parseInt returns.
CsvCodeInputs == {Num(c) : c \in CodeValues} \cup {NaN}

\* extractMessages passes the truthy value of the type column, a number or
\* (for a TEXT column) a string.
DbCodeInputs ==
  {Num(c) : c \in CodeValues \ {0}} \cup {Str(IntToStr(c)) : c \in CodeValues}

\* The files parseFile is called on by itself: every name with every text.
\* The texts are a JSON array, a JSON object after a space, three texts that
\* start like JSON and are none (without a comma, with the commas of a CSV
\* header, with a CSV row after it), a CSV, the same after a blank line, a
\* chat line with one comma, a chat line before a line of commas, a chat
\* line, a JSON object with a tail, and the empty text.
ProbeNames == {"a.json", "B.JSON", "c.csv", "C.Csv", "t.txt", "notes", "json", "x.json.bak"}

ProbeTexts ==
  {"[{\"content\":\"hi\",\"StrTalker\":\"a\",\"CreateTime\":171}]",
   " {\"messages\": [{\"content\":\"yo\"}]}",
   "[{\"content\":\"hi\"",
   "[a,b,c",
   "[x],content,talker\n1,hi,bob",
   "content,createtime,strtalker\nhey,172,b",
   "\ncontent,createtime,strtalker\nhey,172,b",
   "me: hi, there",
   "a: x\n1,2,3",
   "a: hi",
   "{\"a\": 1} and more",
   ""}

ProbeFiles == {[name |-> n, text |-> t] : n \in ProbeNames, t \in ProbeTexts}

\* The files of the model. Every message of a file carries its time stamp.
MaxFiles == 3
MaxCalls == 2

TextFile(name, text) == [name |-> name, text |-> text, bytes |-> <<>>, db |-> Thrown]
BinaryFile(name, bytes, db) == [name |-> name, text |-> "", bytes |-> bytes, db |-> db]

\* A database of two talkers.
SampleDb ==
  [tables |-> <<DbTable("MSG", FullColumns, FullRoles,
                        <<DbRowValues(Str("hi"), Num(171), Str("a"), Num(1), Num(0)),
                          DbRowValues(Str("hey"), Num(170), Str("b@chatroom"), Num(49),
                                      Num(0))>>)>>]

\* A flat array of one message; a keyed-sessions object of two sessions; a
\* text that is cut short; a CSV of one row.
JsonFiles ==
  {TextFile("a.json", "[{\"content\":\"hi\",\"StrTalker\":\"a\",\"CreateTime\":171}]"),
   TextFile("k.json", "{\"x\": [{\"content\":\"yo\",\"CreateTime\":170}], \"y\": []}"),
   TextFile("bad.json", "[{\"content\":\"hi\"")}

OtherTextFiles ==
  {TextFile("c.csv", "content,createtime,strtalker\nhey,172,b")}

\* A database; one that sql.js fails to open; one whose header differs in
\* its last byte; one of fifteen bytes.
DbFiles ==
  {BinaryFile("good.db", SqliteHeader, SampleDb),
   BinaryFile("broken.db", SqliteHeader, Thrown),
   BinaryFile("enc.db", [SqliteHeader EXCEPT ![16] = 1], Thrown),
   BinaryFile("short.db", SubSeq(SqliteHeader, 1, 15), Thrown)}

\* A JPEG obfuscated with the key 0x5A.
DatFiles ==
  {BinaryFile("Img.DAT", <<165, 130, 90>>, Thrown)}

Files == JsonFiles \cup OtherTextFiles \cup DbFiles \cup DatFiles

\* The files of the uploads that overlap: the JPEG, a PNG that is not
\* obfuscated (key 0), a .dat file that is no image, and a JSON file.
MediaFiles ==
  DatFiles
  \cup {BinaryFile("pic.dat", <<137, 80, 0>>, Thrown),
        BinaryFile("raw.dat", <<1, 2, 3>>, Thrown)}
  \cup {f \in JsonFiles : f.name = "a.json"}

\* NormaliserResult on the files of the model, tabulated: the result for
\* file and the clock c is NormaliserResults[file][c].
NormaliserResults ==
  [file \in Files |-> [c \in Clocks |-> NormaliserResult(file, c.now, c.elapsed)]]

-----------------------------------------------------------------------------
(* The state machine: a caller holds one input and calls its operation *)

\* The calls the model makes: the operation and its argument.
JsonCalls == {[fn |-> "parseJsonData", arg |-> x] : x \in JsonInputs}
CsvCalls == {[fn |-> "parseCsvData", arg |-> x] : x \in CsvInputs}
TextCalls == {[fn |-> "parseTextData", arg |-> x] : x \in TextInputs}
DbCalls == {[fn |-> "parseDbFile", arg |-> x] : x \in DbInputs}
DatCalls == {[fn |-> "decryptDatImage", arg |-> x] : x \in DatInputs}

FileCalls == {[fn |-> "parseFile", arg |-> x] : x \in ProbeFiles}
TimestampCalls == {[fn |-> "parseTimestamp", arg |-> x] : x \in TimestampInputs}
CsvLineCalls == {[fn |-> "parseCsvLine", arg |-> x] : x \in CsvLineInputs}

\* The calls of the three type-code tables.
TypeCalls ==
  {[fn |-> "parseMessageType", arg |-> x] : x \in JsonCodeInputs}
  \cup {[fn |-> "parseMessageTypeFromCode", arg |-> x] : x \in CsvCodeInputs}
  \cup {[fn |-> "getMessageType", arg |-> x] : x \in DbCodeInputs}

\* The application before any upload.
AppIdle ==
  /\ appData = Null
  /\ selectedSession = Null
  /\ isLoading = FALSE
  /\ errorMessage = Null
  /\ mediaMap = <<>>
  /\ objectUrls = {}
  /\ calls = <<>>

\* The caller holding one of the calls of S, nothing being called yet.
InitWith(S) ==
  /\ op = "idle"
  /\ input \in S
  /\ now = 0
  /\ result = Null
  /\ AppIdle

Init ==
  \/ InitWith(JsonCalls)
  \/ InitWith(CsvCalls)
  \/ InitWith(TextCalls)
  \/ InitWith(DbCalls)
  \/ InitWith(DatCalls)

\* parseJsonData(jsonData)
CallParseJsonData ==
  /\ op = "idle"
  /\ input.fn = "parseJsonData"
  /\ \E c \in Clocks :
       /\ op' = "parseJsonData"
       /\ now' = c.now
       /\ result' = ParseJsonData(input.arg, c.now, c.elapsed)
  /\ UNCHANGED <<input, app>>

\* parseCsvData(csvContent)
CallParseCsvData ==
  /\ op = "idle"
  /\ input.fn = "parseCsvData"
  /\ \E c \in Clocks :
       /\ op' = "parseCsvData"
       /\ now' = c.now
       /\ result' = ParseCsvData(input.arg, c.now, c.elapsed)
  /\ UNCHANGED <<input, app>>

\* parseTextData(textContent)
CallParseTextData ==
  /\ op = "idle"
  /\ input.fn = "parseTextData"
  /\ \E c \in Clocks :
       /\ op' = "parseTextData"
       /\ now' = c.now
       /\ result' = ParseTextData(input.arg, c.now, c.elapsed)
  /\ UNCHANGED <<input, app>>

\* parseDbFile(buffer), the buffer holding the database input.arg
CallParseDbFile ==
  /\ op = "idle"
  /\ input.fn = "parseDbFile"
  /\ \E c \in Clocks :
       /\ op' = "parseDbFile"
       /\ now' = c.now
       /\ result' = ParseDbFile(input.arg, c.now, c.elapsed)
  /\ UNCHANGED <<input, app>>

\* decryptDatImage(buffer)
CallDecryptDatImage ==
  /\ op = "idle"
  /\ input.fn = "decryptDatImage"
  /\ op' = "decryptDatImage"
  /\ result' = DecryptDatImage(input.arg)
  /\ UNCHANGED <<input, now, app>>

\* parseMessageType(typeCode)
CallParseMessageType ==
  /\ op = "idle"
  /\ input.fn = "parseMessageType"
  /\ op' = "parseMessageType"
  /\ result' = Str(ParseMessageType(input.arg))
  /\ UNCHANGED <<input, now, app>>

\* parseMessageTypeFromCode(code)
CallParseMessageTypeFromCode ==
  /\ op = "idle"
  /\ input.fn = "parseMessageTypeFromCode"
  /\ op' = "parseMessageTypeFromCode"
  /\ result' = Str(ParseMessageTypeFromCode(input.arg))
  /\ UNCHANGED <<input, now, app>>

\* getMessageType(typeCode)
CallGetMessageType ==
  /\ op = "idle"
  /\ input.fn = "getMessageType"
  /\ op' = "getMessageType"
  /\ result' = Str(GetMessageType(input.arg))
  /\ UNCHANGED <<input, now, app>>

Next ==
  \/ CallParseJsonData
  \/ CallParseCsvData
  \/ CallParseTextData
  \/ CallParseDbFile
  \/ CallDecryptDatImage

\* Every operation on every input of the model.
Spec == Init /\ [][Next]_vars

\* One operation on its inputs.
SpecJson == InitWith(JsonCalls) /\ [][CallParseJsonData]_vars
SpecCsv == InitWith(CsvCalls) /\ [][CallParseCsvData]_vars
SpecMedia == InitWith(DatCalls) /\ [][CallDecryptDatImage]_vars
SpecText == InitWith(TextCalls) /\ [][CallParseTextData]_vars

TypeNext ==
  \/ CallParseMessageType
  \/ CallParseMessageTypeFromCode
  \/ CallGetMessageType

\* The three type-code tables on every code of the model.
SpecTypes == InitWith(TypeCalls) /\ [][TypeNext]_vars

\* parseTimestamp(value)
CallParseTimestamp ==
  /\ op = "idle"
  /\ input.fn = "parseTimestamp"
  /\ \E c \in Clocks :
       /\ op' = "parseTimestamp"
       /\ now' = c.now
       /\ result' = ParseTimestamp(input.arg, c.now)
  /\ UNCHANGED <<input, app>>

\* parseTimestamp on every value of the model.
SpecTimestamp == InitWith(TimestampCalls) /\ [][CallParseTimestamp]_vars

\* parseFile(file)
CallParseFile ==
  /\ op = "idle"
  /\ input.fn = "parseFile"
  /\ \E c \in Clocks :
       /\ op' = "parseFile"
       /\ now' = c.now
       /\ result' = ParseFile(input.arg, c.now, c.elapsed)
  /\ UNCHANGED <<input, app>>

\* parseFile on every file of the probes.
SpecFile == InitWith(FileCalls) /\ [][CallParseFile]_vars

\* parseCsvLine(line)
CallParseCsvLine ==
  /\ op = "idle"
  /\ input.fn = "parseCsvLine"
  /\ op' = "parseCsvLine"
  /\ result' = ParseCsvLine(input.arg)
  /\ UNCHANGED <<input, now, app>>

\* parseCsvLine on every line of the model.
SpecCsvLine == InitWith(CsvLineCalls) /\ [][CallParseCsvLine]_vars

-----------------------------------------------------------------------------
(* The state machine of the application: uploads and resets *)

AppInit ==
  /\ op = "idle"
  /\ input = Null
  /\ now = 0
  /\ result = Null
  /\ AppIdle

\* The number of files submitted so far.
RECURSIVE FilesSubmitted(_)
FilesSubmitted(cs) ==
  IF cs = <<>> THEN 0 ELSE Len(Head(cs).files) + FilesSubmitted(Tail(cs))

\* Every invocation but i is suspended or done (i = 0: every invocation).
OthersWait(i) ==
  \A j \in 1..Len(calls) : j = i \/ calls[j].pc = "done" \/ AtAwait(calls[j])

\* handleFileUpload(files) up to its first loop, for a list of at most n
\* files of the set given; nothing happens for an empty list.
HandleFileUploadOf(fileSet, n) ==
  /\ Len(calls) < MaxCalls
  /\ OthersWait(0)
  /\ \E m \in 1..n :
       \E files \in [1..m -> fileSet] :
         calls' = Append(calls, [pc |-> "media",
                                 pos |-> 1,
                                 files |-> files,
                                 results |-> EmptyParsedData,
                                 newMediaMap |-> mediaMap,
                                 data |-> appData])
  /\ isLoading' = TRUE
  /\ errorMessage' = Null
  /\ UNCHANGED <<appData, selectedSession, mediaMap, objectUrls, harness>>

HandleFileUpload == HandleFileUploadOf(Files, MaxFiles - FilesSubmitted(calls))

\* The iteration of the first loop of invocation i on a .dat file, after
\* its bytes are read; the object url created is named after the invocation
\* and the file.
DecryptStep(i, call, file, decrypted) ==
  /\ calls' = [calls EXCEPT ![i].pos = @ + 1,
                            ![i].newMediaMap =
                               IF decrypted = Null THEN @
                               ELSE WithMedia(@, file.name, <<i, call.pos>>)]
  /\ objectUrls' = IF decrypted = Null THEN objectUrls
                   ELSE objectUrls \cup {<<i, call.pos>>}

\* One iteration of the first loop of invocation i.
FirstPassOf(i, call, file) ==
  /\ IF HasExtension(file, ".dat")
     THEN DecryptStep(i, call, file, DecryptDatImage(file.bytes))
     ELSE /\ calls' = [calls EXCEPT ![i].pos = @ + 1]
          /\ UNCHANGED objectUrls
  /\ UNCHANGED <<appData, selectedSession, isLoading, errorMessage, mediaMap, harness>>

FirstPass ==
  \E i \in 1..Len(calls) :
    /\ calls[i].pc = "media"
    /\ calls[i].pos <= Len(calls[i].files)
    /\ OthersWait(i)
    /\ FirstPassOf(i, calls[i], calls[i].files[calls[i].pos])

\* setMediaMap(newMediaMap), after the first loop of an invocation.
SetMediaMap ==
  \E i \in 1..Len(calls) :
    /\ calls[i].pc = "media"
    /\ calls[i].pos > Len(calls[i].files)
    /\ OthersWait(i)
    /\ mediaMap' = calls[i].newMediaMap
    /\ calls' = [calls EXCEPT ![i].pc = "data", ![i].pos = 1]
    /\ UNCHANGED <<appData, selectedSession, isLoading, errorMessage, objectUrls, harness>>

\* The iteration of the second loop of invocation i, with its outcome.
SecondPassWith(i, outcome) ==
  /\ calls' = [calls EXCEPT ![i].pos = @ + 1, ![i].results = outcome.results]
  /\ errorMessage' = outcome.message

\* One iteration of the second loop of invocation i.
SecondPassOf(i, call, file) ==
  /\ IF HasExtension(file, ".dat")
     THEN /\ calls' = [calls EXCEPT ![i].pos = @ + 1]
          /\ UNCHANGED errorMessage
     ELSE \E c \in Clocks :
            SecondPassWith(i, DataFileOutcome(file, call.results, errorMessage,
                                              NormaliserResults[file][c]))
  /\ UNCHANGED <<appData, selectedSession, isLoading, mediaMap, objectUrls, harness>>

SecondPass ==
  \E i \in 1..Len(calls) :
    /\ calls[i].pc = "data"
    /\ calls[i].pos <= Len(calls[i].files)
    /\ OthersWait(i)
    /\ SecondPassOf(i, calls[i], calls[i].files[calls[i].pos])

\* The end of an invocation: setData, setSelectedSession and the finally
\* block.
SetDataOf(i, call) ==
  /\ appData' = DataAfter(appData, call.results)
  /\ selectedSession' = SelectedAfter(selectedSession, call.results, call.data)
  /\ isLoading' = FALSE
  /\ calls' = [calls EXCEPT ![i].pc = "done"]
  /\ UNCHANGED <<errorMessage, mediaMap, objectUrls, harness>>

SetData ==
  \E i \in 1..Len(calls) :
    /\ calls[i].pc = "data"
    /\ calls[i].pos > Len(calls[i].files)
    /\ OthersWait(i)
    /\ SetDataOf(i, calls[i])

\* handleReset()
HandleReset ==
  /\ OthersWait(0)
  /\ appData' = Null
  /\ selectedSession' = Null
  /\ objectUrls' = objectUrls \ UrlsOf(mediaMap)
  /\ mediaMap' = <<>>
  /\ UNCHANGED <<isLoading, errorMessage, calls, harness>>

AppNext ==
  \/ HandleFileUpload
  \/ FirstPass
  \/ SetMediaMap
  \/ SecondPass
  \/ SetData
  \/ HandleReset

\* The application under uploads of at most MaxFiles files in all, in at
\* most MaxCalls invocations of the handler, and resets.
SpecApp == AppInit /\ [][AppNext]_vars

\* handleFileUpload(files) on media files, when no upload was made yet or
\* while an earlier invocation is suspended at a file read.
OverlappingUpload ==
  /\ calls = <<>> \/ \E j \in 1..Len(calls) : calls[j].pc # "done"
  /\ HandleFileUploadOf(MediaFiles, MaxFiles - FilesSubmitted(calls))

OverlapNext ==
  \/ OverlappingUpload
  \/ FirstPass
  \/ SetMediaMap
  \/ SecondPass
  \/ SetData

\* The application under uploads that overlap: every invocation but the
\* first starts before the earlier ones are over.
SpecOverlap == AppInit /\ [][OverlapNext]_vars

-----------------------------------------------------------------------------
(* Properties of the sessions the normalisers return *)

Normalisers == {"parseJsonData", "parseCsvData", "parseTextData", "parseDbFile"}

\* The sessions of the result in hand: none before the call, and none when
\* the call threw.
ReturnedSessions ==
  IF op \in Normalisers /\ result # Thrown THEN result.sessions ELSE <<>>

\* Every message list of the sessions in hand satisfies P.
AllMessageLists(P(_)) ==
  \A i \in 1..Len(ReturnedSessions) : P(ReturnedSessions[i])

CountIsLength(s) == s.messageCount = Len(s.messages)

SortedByTimestamp(s) ==
  \A j \in 1..(Len(s.messages) - 1) : s.messages[j].timestamp <= s.messages[j + 1].timestamp

LastIsGreatest(s) ==
  IF s.messages = <<>>
  THEN s.lastMessage = Undefined /\ s.lastMessageTime = Undefined
  ELSE /\ s.lastMessageTime.k = "number"
       /\ \A j \in 1..Len(s.messages) : s.messages[j].timestamp <= s.lastMessageTime.v
       /\ \E j \in 1..Len(s.messages) : s.messages[j].timestamp = s.lastMessageTime.v

ContentNonEmpty(s) == \A j \in 1..Len(s.messages) : s.messages[j].content # ""

\* C1: every session returned by a normaliser (parseJsonData in each of its
\* shapes, parseCsvData, parseTextData, parseDbFile) has messageCount equal
\* to the number of elements of its messages, also when records were dropped
\* for having no content.
C1_MessageCountIsLength == AllMessageLists(CountIsLength)

\* C2: the messages of every session returned by a normaliser are sorted
\* non-decreasing by timestamp, whatever the order of the records in the
\* input.
C2_MessagesSorted == AllMessageLists(SortedByTimestamp)

\* C3: lastMessageTime of every returned session is the greatest timestamp
\* among its messages when it has messages, and lastMessage and
\* lastMessageTime are undefined when it has none.
C3_LastMessageTimeIsGreatest == AllMessageLists(LastIsGreatest)

\* C4: every message of every session returned by parseJsonData,
\* parseCsvData, parseTextData or parseDbFile has a non-empty content.
C4_ContentNonEmpty == AllMessageLists(ContentNonEmpty)

-----------------------------------------------------------------------------
(* Properties of the fields of one message *)

\* The flat JSON array of one message object with content "hi" and one more
\* field.
OneMessageJson(field, value) ==
  Arr(<<ObjOf(<<<<"content", Str("hi")>>, <<field, value>>>>)>>)

\* The only message of the result in hand.
OnlyMessage == result.sessions[1].messages[1]

\* C5: a JSON message object whose timestamp field holds the integer t gets
\* the timestamp t * 1000 when t < 10_000_000_000 and t when
\* t >= 10_000_000_000, for every integer t, 0 included.
C5_IntegerTimestampScaled ==
  \A t \in TimeValues :
    (op = "parseJsonData" /\ input.arg = OneMessageJson("CreateTime", Num(t)))
    => OnlyMessage.timestamp = IF t < SecondsThreshold THEN t * 1000 ELSE t

\* The codes every table is said to map, and the kind of each.
ClaimedKind(c) ==
  CASE c = 1 -> "text"
    [] c = 3 -> "image"
    [] c = 34 -> "voice"
    [] c = 43 -> "video"
    [] c = 49 -> "file"
    [] c = 10000 -> "system"
    [] c = 10002 -> "system"
ClaimedCodes == {1, 3, 34, 43, 49, 10000, 10002}

\* The keys of the table of each function.
TableCodes(fn) ==
  CASE fn = "parseMessageType" -> ClaimedCodes \cup {42, 47, 48, 50}
    [] fn = "parseMessageTypeFromCode" -> ClaimedCodes
    [] fn = "getMessageType" -> ClaimedCodes \cup {47}

\* The numeric code an argument of a table carries: a number, or a string of
\* digits spelling it.
IsCode(arg) == arg.k = "number" \/ (arg.k = "string" /\ AllDigits(arg.v))
CodeOf(arg) == IF arg.k = "number" THEN arg.v ELSE ParseInt(arg.v).v

\* C6: each of parseMessageType, parseMessageTypeFromCode and getMessageType
\* maps 1 to text, 3 to image, 34 to voice, 43 to video, 49 to file, 10000
\* and 10002 to system, maps every numeric code that its table lacks to
\* text, and returns one of the six kinds.
C6_TypeTables ==
  op \in {"parseMessageType", "parseMessageTypeFromCode", "getMessageType"}
  => /\ result.v \in Kinds
     /\ IsCode(input.arg) /\ CodeOf(input.arg) \in ClaimedCodes
        => result.v = ClaimedKind(CodeOf(input.arg))
     /\ IsCode(input.arg) /\ CodeOf(input.arg) \notin TableCodes(op)
        => result.v = "text"

C6_Witness ==
  \/ op = "parseMessageType" /\ input.arg = Num(34) /\ result = Str("voice")
  \/ op = "parseMessageTypeFromCode" /\ input.arg = Num(50) /\ result = Str("text")
  \/ op = "getMessageType" /\ input.arg = Num(9999) /\ result = Str("text")

\* The kind the words of a free-text discriminator select: image, voice or
\* audio, video, file, system, in that order, and text when none occurs.
KindOfWord(w) ==
  CASE Includes(w, "image") -> "image"
    [] ~Includes(w, "image") /\ (Includes(w, "voice") \/ Includes(w, "audio")) -> "voice"
    [] \A x \in {"image", "voice", "audio"} : ~Includes(w, x) /\ Includes(w, "video") -> "video"
    [] /\ \A x \in {"image", "voice", "audio", "video"} : ~Includes(w, x)
       /\ Includes(w, "file") -> "file"
    [] /\ \A x \in {"image", "voice", "audio", "video", "file"} : ~Includes(w, x)
       /\ Includes(w, "system") -> "system"
    [] OTHER -> "text"

\* The words that are neither numbers nor digit strings.
FreeWords == {w \in TypeWords : ~AllDigits(w)}

\* C7: in the JSON normaliser and in the CSV normaliser a free-text type
\* discriminator selects the kind by substring match, tried in the order
\* image, voice or audio, video, file, system, and text when no word occurs.
C7_FreeTextTypeBySubstring ==
  \A w \in FreeWords :
    /\ (op = "parseJsonData" /\ input.arg = OneMessageJson("msgType", Str(w)))
       => OnlyMessage.type = KindOfWord(w)
    /\ (op = "parseCsvData" /\ input.arg = "content,msgtype\nhi," \o w)
       => OnlyMessage.type = KindOfWord(w)

-----------------------------------------------------------------------------
(* Properties of parseCsvData on one data row *)

RoundTripHeader == "content,createtime,strtalker"

\* The CSV in hand is the header content,createtime,strtalker followed by
\* one data row that parseCsvLine splits into three fields.
OneRowCsv ==
  /\ op = "parseCsvData"
  /\ Len(NonBlankLines(input.arg)) = 2
  /\ NonBlankLines(input.arg)[1] = RoundTripHeader
  /\ Len(ParseCsvLine(NonBlankLines(input.arg)[2])) = 3

\* The first field of the data row, as parseCsvLine returns it.
FirstField == ParseCsvLine(NonBlankLines(input.arg)[2])[1]

\* The result is one session of one message whose content is the first field.
OneMessageOfFirstField ==
  /\ Len(result.sessions) = 1
  /\ Len(result.sessions[1].messages) = 1
  /\ OnlyMessage.content = FirstField

\* C8, as written: for every CSV made of the header
\* content,createtime,strtalker and exactly one data row of three fields,
\* parseCsvData returns one session holding one message whose content is the
\* first field of the row.
C8_AnyRowOneMessage == OneRowCsv => OneMessageOfFirstField

\* C8, corrected: the same for every such row whose first field is not
\* empty, the field being what parseCsvLine returns (split at the commas
\* outside quotes, quotes removed, trimmed).
C8_NonEmptyRowOneMessage == (OneRowCsv /\ FirstField # "") => OneMessageOfFirstField

C8_Witness ==
  /\ OneRowCsv
  /\ input.arg = RoundTripHeader \o "\n a,,a"
  /\ OnlyMessage.content = "a"

-----------------------------------------------------------------------------
(* Properties of decryptDatImage *)

\* The signatures in the trial order, with the tags of each.
Signatures ==
  <<[first |-> 255, second |-> 216, extension |-> "jpg", mime |-> "image/jpeg"],
    [first |-> 137, second |-> 80, extension |-> "png", mime |-> "image/png"],
    [first |-> 71, second |-> 73, extension |-> "gif", mime |-> "image/gif"]>>

\* The buffer's first two bytes are sig's under one key: the key is then
\* buffer[0] XOR sig.first.
Obfuscates(buffer, sig) ==
  /\ Len(buffer) >= 2
  /\ Xor(buffer[1], sig.first) = Xor(buffer[2], sig.second)

\* The result is the buffer decoded with key and tagged as sig.
DecodedAs(buffer, sig, key) ==
  /\ result # Null
  /\ result.extension = sig.extension
  /\ result.mime = sig.mime
  /\ Len(result.bytes) = Len(buffer)
  /\ \A i \in 1..Len(buffer) : result.bytes[i] = Xor(buffer[i], key)
  /\ result.bytes[1] = sig.first /\ result.bytes[2] = sig.second

\* C9: for each signature S among JPEG, PNG and GIF, every byte K and every
\* buffer of at least two bytes that starts with S[0] XOR K, S[1] XOR K,
\* decryptDatImage returns the buffer XORed with K, of the same length,
\* tagged with the extension and MIME type of S; no earlier signature
\* captures the buffer.
C9_SignatureDecoded ==
  op = "decryptDatImage"
  => \A h \in 1..Len(Signatures) :
       Obfuscates(input.arg, Signatures[h])
       => DecodedAs(input.arg, Signatures[h], Xor(input.arg[1], Signatures[h].first))

C9_Witness ==
  /\ op = "decryptDatImage"
  /\ input.arg = <<165, 130, 90>>
  /\ Obfuscates(input.arg, Signatures[1])
  /\ result.extension = "jpg"
  /\ result.bytes = <<255, 216, 0>>

\* C10: decryptDatImage returns null exactly when the buffer is shorter than
\* two bytes or no signature passes the key consistency check
\* buffer[0] XOR sig[0] = buffer[1] XOR sig[1]; the buffer {0x00, 0x01}
\* yields null.
C10_NullExactlyWhenNoSignature ==
  op = "decryptDatImage"
  => /\ result = Null
        <=> \A h \in 1..Len(Signatures) : ~Obfuscates(input.arg, Signatures[h])
     /\ input.arg = <<0, 1>> => result = Null

C10_Witness ==
  /\ op = "decryptDatImage"
  /\ input.arg = <<0, 1>>
  /\ result = Null

-----------------------------------------------------------------------------
(* Properties of the JSON shapes and of the grouping by talker *)

\* The key a message is filed under: its senderId, "unknown" when empty.
ClaimedKey(m) == IF m.senderId = "" THEN "unknown" ELSE m.senderId

\* The number of occurrences of x in seq.
Count(seq, x) == Cardinality({i \in 1..Len(seq) : seq[i] = x})

\* The input in hand is an array that does not start with a session object.
FlatArray ==
  /\ op = "parseJsonData"
  /\ input.arg.k = "array"
  /\ ~(input.arg.v # <<>> /\ HasKey(input.arg.v[1], "messages"))

\* The input in hand is a non-empty array that starts with a session object.
SessionArray ==
  /\ op = "parseJsonData"
  /\ input.arg.k = "array"
  /\ input.arg.v # <<>>
  /\ HasKey(input.arg.v[1], "messages")

\* The messages of the elements of the array in hand, in input order.
ParsedInput == ParseMessages(input.arg.v, now)

\* Every element of the array in hand is an object with non-empty content.
AllContentful ==
  \A i \in 1..Len(input.arg.v) :
    /\ input.arg.v[i].k = "object"
    /\ ParseMessageObject(input.arg.v[i], now) # Null

\* The messages of msgs filed under key, in the order of msgs.
FiledUnder(msgs, key) == SelectSeq(msgs, LAMBDA m : ClaimedKey(m) = key)

\* Session s holds exactly the messages of msgs filed under key.
HoldsExactly(s, msgs, key) ==
  /\ Len(s.messages) = Len(FiledUnder(msgs, key))
  /\ \A j \in 1..Len(s.messages) :
       /\ ClaimedKey(s.messages[j]) = key
       /\ Count(s.messages, s.messages[j]) = Count(msgs, s.messages[j])

OneSessionPerKey(sessions, msgs) ==
  /\ Len(sessions) = Cardinality({ClaimedKey(msgs[i]) : i \in 1..Len(msgs)})
  /\ \A i \in 1..Len(msgs) :
       \E n \in 1..Len(sessions) : HoldsExactly(sessions[n], msgs, ClaimedKey(msgs[i]))
  /\ \A n \in 1..Len(sessions) : SortedByTimestamp(sessions[n])

\* C11: for a flat JSON array of message objects with non-empty content,
\* parseJsonData returns one session per distinct senderId (the empty
\* senderId counted under "unknown"), each session holds exactly the
\* messages of that senderId, and its messages are sorted non-decreasing by
\* timestamp.
C11_OneSessionPerSender ==
  (FlatArray /\ AllContentful) => OneSessionPerKey(result.sessions, ParsedInput)

\* Talkers a, unknown, a, the second message of a being the older one: two
\* sessions, of two messages (reordered) and of one.
C11_Witness ==
  /\ op = "parseJsonData"
  /\ input.arg = Arr(<<TalkerObj(Str("a"), Undefined, Undefined, Num(171)),
                       TalkerObj(Str("unknown"), Undefined, Undefined, Num(170)),
                       TalkerObj(Str("a"), Undefined, Undefined, Num(170))>>)
  /\ Len(result.sessions) = 2
  /\ Len(result.sessions[1].messages) = 2
  /\ result.sessions[1].messages[1].timestamp = 170000
  /\ Len(result.sessions[2].messages) = 1

\* C13: parseJsonData never throws, and whenever an exception is raised
\* inside it the ParsedData it returns has no sessions and totalMessages 0.
C13_ThrowGivesEmptyResult ==
  op = "parseJsonData" =>
    /\ result # Thrown
    /\ result.threw => (result.sessions = <<>> /\ result.totalMessages = 0)

\* Every message of msgs is in some session of sessions.
AllPresent(sessions, msgs) ==
  \A i \in 1..Len(msgs) :
    \E n \in 1..Len(sessions) : Count(sessions[n].messages, msgs[i]) > 0

\* C14: in a JSON array treated as a flat list of messages, the elements
\* that are no objects or have no non-empty content are dropped and every
\* other element still yields a message, wherever the malformed element is,
\* position 0 included.
C14_MalformedElementSkipped ==
  FlatArray =>
    /\ result.totalMessages = Len(ParsedInput)
    /\ AllPresent(result.sessions, ParsedInput)

\* The number of messages held by the sessions.
MessagesIn(sessions) ==
  Cardinality(UNION {{<<n, j>> : j \in 1..Len(sessions[n].messages)} :
                       n \in 1..Len(sessions)})

\* C18: totalMessages of every ParsedData returned by parseJsonData,
\* parseCsvData, parseTextData or parseDbFile is the sum over its sessions
\* of the length of the session's messages.
C18_TotalIsSumOfLengths ==
  (op \in Normalisers /\ result # Thrown)
  => result.totalMessages = MessagesIn(result.sessions)

\* A database whose messages make two sessions, three messages in all.
C18_Witness ==
  /\ op = "parseDbFile"
  /\ result # Thrown
  /\ Len(result.sessions) = 2
  /\ result.totalMessages = 3

\* The sessions of the elements of a, each parsed as a session object.
SessionsOfElements(a) ==
  SelectSeq([i \in 1..Len(a) |-> ParseSessionObject(a[i], now)], LAMBDA s : s # Null)

\* The own properties of the object o whose value is an array, in order.
ArrayKeys(o) == SelectSeq(o.keys, LAMBDA key : o.v[key].k = "array")

\* C19: parseJsonData dispatches on the shape: a non-empty array whose first
\* element has a messages field is parsed as an array of session objects;
\* any other array as a flat list of messages; an object with messages or
\* chatList yields at most one session; any other object yields one session
\* per own property whose value is an array, named after the key.
C19_ShapeDispatch ==
  op = "parseJsonData" =>
    /\ (SessionArray /\ ~result.threw)
       => result.sessions = SessionsOfElements(input.arg.v)
    /\ FlatArray => result.sessions = GroupMessagesByConversation(input.arg.v, now)
    /\ (input.arg.k = "object"
        /\ (HasKey(input.arg, "messages") \/ HasKey(input.arg, "chatList")))
       => Len(result.sessions) <= 1
    /\ (input.arg.k = "object"
        /\ ~HasKey(input.arg, "messages") /\ ~HasKey(input.arg, "chatList"))
       => /\ Len(result.sessions) = Len(ArrayKeys(input.arg))
          /\ \A n \in 1..Len(result.sessions) :
               result.sessions[n].name = ArrayKeys(input.arg)[n]

\* The name of a session after the messages of rest, name being its name
\* before them: a name that still is the key or "unknown" is replaced by the
\* name of the next message that is not the user's, whose name is neither
\* the placeholder nor the key.
RECURSIVE PromotedName(_, _, _)
PromotedName(name, key, rest) ==
  IF rest = <<>> THEN name
  ELSE PromotedName(IF /\ name \in {key, "unknown"}
                       /\ ~Head(rest).isSelf
                       /\ Head(rest).senderName \notin {OtherName, key}
                    THEN Head(rest).senderName ELSE name,
                    key, Tail(rest))

\* The name of the session of key whose messages are msgs, in input order.
ClaimedName(msgs, key) ==
  PromotedName(IF ~msgs[1].isSelf /\ msgs[1].senderName # OtherName
               THEN msgs[1].senderName ELSE key,
               key, Tail(msgs))

\* C20: in flat-message grouping a session's name starts as the first
\* message's sender name if that message is not the user's and its name is
\* not the placeholder, otherwise as the group key; a name that still equals
\* the key or "unknown" is replaced by the sender name of the next message
\* that is not the user's and whose name is neither the placeholder nor the
\* key; a name that differs from both is never changed.
C20_NamePromotion ==
  FlatArray =>
    \A n \in 1..Len(result.sessions) :
      result.sessions[n].name =
        ClaimedName(FiledUnder(ParsedInput, ClaimedKey(result.sessions[n].messages[1])),
                    ClaimedKey(result.sessions[n].messages[1]))

\* Talker a: a first message named "unknown", then one named Al, then one
\* named Bo: the session is named Al.
C20_Witness ==
  /\ op = "parseJsonData"
  /\ input.arg = Arr(<<TalkerObj(Str("a"), Str("unknown"), Undefined, Undefined),
                       TalkerObj(Str("a"), Str("Al"), Undefined, Undefined),
                       TalkerObj(Str("a"), Str("Bo"), Undefined, Undefined)>>)
  /\ Len(result.sessions) = 1
  /\ result.sessions[1].name = "Al"

-----------------------------------------------------------------------------
(* Properties of the upload handler *)

\* The sessions and the total of the held data, none being held when the
\* state is null.
SessionsOf(held) == IF held = Null THEN <<>> ELSE held.sessions
TotalOf(held) == IF held = Null THEN 0 ELSE held.totalMessages

\* p has no session and no message.
IsEmptyParsedData(p) == p.sessions = <<>> /\ p.totalMessages = 0

\* Invocation i makes the step: an iteration of its second loop, on the
\* file at its position; the code after the second loop.
SecondPassStep(i) ==
  /\ Len(calls') = Len(calls)
  /\ calls[i].pc = "data"
  /\ calls'[i].pc = "data"
  /\ calls'[i].pos = calls[i].pos + 1

SetDataStep(i) ==
  /\ Len(calls') = Len(calls)
  /\ calls[i].pc = "data"
  /\ calls'[i].pc = "done"

\* The file of the next iteration of invocation i.
FileAt(i) == calls[i].files[calls[i].pos]

\* The file is parsed by parseFile, and to an empty ParsedData.
ParsesToNothing(file) ==
  /\ ~HasExtension(file, ".dat")
  /\ ~HasExtension(file, ".db")
  /\ \A c \in Clocks : IsEmptyParsedData(NormaliserResults[file][c])

\* C12: merging an empty ParsedData (no sessions, totalMessages 0) into an
\* aggregate leaves its sessions and its totalMessages unchanged, both when
\* the result of a file is merged into the results of the batch and when
\* the results of a batch are merged into the held data.
C12_EmptyMergeIsNeutral ==
  [][\A i \in 1..Len(calls) :
       /\ (SecondPassStep(i) /\ ParsesToNothing(FileAt(i)))
          => /\ calls'[i].results.sessions = calls[i].results.sessions
             /\ calls'[i].results.totalMessages = calls[i].results.totalMessages
       /\ (SetDataStep(i) /\ IsEmptyParsedData(calls[i].results))
          => /\ SessionsOf(appData') = SessionsOf(appData)
             /\ TotalOf(appData') = TotalOf(appData)]_vars

\* Data is held, and a later batch of the one file that is no JSON ended
\* with empty results.
C12_Witness ==
  /\ appData # Null
  /\ Len(appData.sessions) > 0
  /\ \E i \in 1..Len(calls) :
       /\ calls[i].pc = "done"
       /\ Len(calls[i].files) = 1
       /\ calls[i].files[1].name = "bad.json"
       /\ IsEmptyParsedData(calls[i].results)
       /\ calls[i].data # Null

\* The first 16 bytes of the buffer are the SQLite magic string.
HasSqliteMagic(bytes) == Len(bytes) >= 16 /\ SubSeq(bytes, 1, 16) = SqliteHeader

\* The iteration went through parseDbFile: its sessions are merged, or its
\* failure is reported.
WentThroughParseDbFile(i, file) ==
  \E c \in Clocks :
    IF NormaliserResults[file][c] = Thrown
    THEN /\ errorMessage' = DbFailedMessage
         /\ calls'[i].results = calls[i].results
    ELSE /\ errorMessage' = errorMessage
         /\ calls'[i].results.sessions =
              calls[i].results.sessions \o NormaliserResults[file][c].sessions

\* The iteration rejected the file as an encrypted database and went on.
RejectedAsEncrypted(i, file) ==
  /\ errorMessage' = EncryptedDbMessage(file.name)
  /\ calls'[i].results = calls[i].results
  /\ calls'[i].pc = "data"
  /\ calls'[i].pos = calls[i].pos + 1

\* C15: for every file of a batch whose name ends in .db, parseDbFile is
\* invoked if and only if the first 16 bytes of the file are the SQLite
\* magic string (a shorter buffer does not match); otherwise the
\* encrypted-database message is set, the file contributes no session and
\* the handler goes on with the next file.
C15_DbHeaderGate ==
  [][\A i \in 1..Len(calls) :
       (SecondPassStep(i) /\ HasExtension(FileAt(i), ".db"))
       => IF HasSqliteMagic(FileAt(i).bytes)
          THEN WentThroughParseDbFile(i, FileAt(i))
          ELSE RejectedAsEncrypted(i, FileAt(i))]_vars

\* A batch of a database of fifteen bytes and a JSON file: the message is
\* that of the rejected database and the sessions of the JSON file are in
\* the results.
C15_Witness ==
  \E i \in 1..Len(calls) :
    /\ Len(calls[i].files) = 2
    /\ calls[i].files[1].name = "short.db"
    /\ calls[i].files[2].name = "a.json"
    /\ calls[i].pc = "data"
    /\ calls[i].pos = 3
    /\ errorMessage = EncryptedDbMessage("short.db")
    /\ Len(calls[i].results.sessions) = 1

\* The file fails as a whole: a .json file that is no JSON, a .db file
\* with the magic string that sql.js cannot open.
FailsCatastrophically(file) ==
  \/ HasExtension(file, ".json") /\ JsonParse(file.text) = Thrown
  \/ HasExtension(file, ".db") /\ HasSqliteMagic(file.bytes) /\ file.db = Thrown

\* The file is one whose normaliser returns a ParsedData.
Contributes(file) ==
  /\ ~HasExtension(file, ".dat")
  /\ HasExtension(file, ".db") => (HasSqliteMagic(file.bytes) /\ file.db # Thrown)

\* Every session of part is among those of whole.
AllAmong(part, whole) ==
  \A n \in 1..Len(part) : \E m \in 1..Len(whole) : whole[m] = part[n]

\* C16: if a file of a batch fails catastrophically (a .json file with a
\* syntax error, a .db file for which parseDbFile throws), it contributes
\* an empty result, and the sessions of every other file of the batch,
\* before and after it, are in the aggregate after the batch.
C16_FailureKeepsOtherFiles ==
  [][\A i \in 1..Len(calls) :
       /\ (SecondPassStep(i) /\ FailsCatastrophically(FileAt(i)))
          => calls'[i].results.sessions = calls[i].results.sessions
       /\ (SetDataStep(i)
           /\ \E p \in 1..Len(calls[i].files) : FailsCatastrophically(calls[i].files[p]))
          => \A p \in 1..Len(calls[i].files) :
               Contributes(calls[i].files[p])
               => \E c \in Clocks :
                    AllAmong(NormaliserResults[calls[i].files[p]][c].sessions,
                             SessionsOf(appData'))]_vars

\* A batch of a JSON file, a database that cannot be opened and a database
\* of two sessions: the three sessions are held.
C16_Witness ==
  /\ appData # Null
  /\ Len(appData.sessions) = 3
  /\ errorMessage = DbFailedMessage
  /\ \E i \in 1..Len(calls) :
       /\ calls[i].pc = "done"
       /\ Len(calls[i].files) = 3
       /\ calls[i].files[1].name = "a.json"
       /\ calls[i].files[2].name = "broken.db"
       /\ calls[i].files[3].name = "good.db"

\* The sessions and the messages the file adds to the batch under clock c.
AddedSessions(file, c) ==
  IF Contributes(file) THEN NormaliserResults[file][c].sessions ELSE <<>>
AddedMessages(file, c) ==
  IF Contributes(file) THEN NormaliserResults[file][c].totalMessages ELSE 0

\* C17: after a batch the sessions of the aggregate are the sessions held
\* before followed by those of each file that is no .dat file, in the order
\* of the files, each file's sessions in the order its normaliser returned
\* them, and totalMessages is the sum of the parts; no session is removed,
\* moved across files or deduplicated.
C17_SessionsConcatenated ==
  [][\A i \in 1..Len(calls) :
       /\ SecondPassStep(i)
          => \E c \in Clocks :
               /\ calls'[i].results.sessions =
                    calls[i].results.sessions \o AddedSessions(FileAt(i), c)
               /\ calls'[i].results.totalMessages =
                    calls[i].results.totalMessages + AddedMessages(FileAt(i), c)
       /\ SetDataStep(i)
          => /\ SessionsOf(appData') = SessionsOf(appData) \o calls[i].results.sessions
             /\ TotalOf(appData') = TotalOf(appData) + calls[i].results.totalMessages]_vars

\* A JSON file is held; a batch of a database and the same JSON file ends:
\* four sessions, the first and the last being the same.
C17_Witness ==
  /\ appData # Null
  /\ Len(appData.sessions) = 4
  /\ appData.sessions[1] = appData.sessions[4]
  /\ appData.totalMessages = 4
  /\ Len(calls) = 2
  /\ calls[1].pc = "done"
  /\ calls[2].pc = "done"
  /\ Len(calls[2].files) = 2
  /\ calls[2].files[1].name = "good.db"
  /\ calls[2].files[2].name = "a.json"
  /\ calls[2].data # Null

-----------------------------------------------------------------------------
(* Properties of the sessions built by grouping messages by talker *)

\* The result in hand comes from a normaliser that groups messages by
\* talker: parseJsonData on a flat array, parseCsvData, parseDbFile.
GroupedByTalker ==
  \/ FlatArray
  \/ op = "parseCsvData"
  \/ op = "parseDbFile"

\* lastMessageTime of s, a missing one counted as 0.
ClaimedRecency(s) ==
  IF s.lastMessageTime = Undefined THEN 0 ELSE s.lastMessageTime.v

SortedByRecency(sessions) ==
  \A i \in 1..(Len(sessions) - 1) :
    ClaimedRecency(sessions[i]) >= ClaimedRecency(sessions[i + 1])

\* C21: the session list returned for a flat JSON array, for a CSV of
\* several talkers and for a relational database is sorted non-increasing
\* by lastMessageTime, a missing lastMessageTime counted as 0.
C21_SessionsSortedByRecency ==
  GroupedByTalker => SortedByRecency(ReturnedSessions)

\* Two sessions come back in the other order than their talkers appear in
\* the input: the talker of the first message of the input has the session
\* of the older last message.
C21_JsonWitness ==
  /\ FlatArray
  /\ AllContentful
  /\ Len(result.sessions) = 2
  /\ ClaimedRecency(result.sessions[1]) > ClaimedRecency(result.sessions[2])
  /\ ClaimedKey(ParsedInput[1]) = ClaimedKey(result.sessions[2].messages[1])

\* The talker id of a session built by grouping: the senderId its messages
\* share.
TalkerOf(s) == s.messages[1].senderId

\* The group-chat marker of a talker id.
ChatroomMarker == "@chatroom"

IsGroupByMarker(s) == s.isGroup = Includes(TalkerOf(s), ChatroomMarker)

\* C22: every session built by grouping messages by talker id (flat JSON
\* array, CSV of one or of several talkers, relational database) has
\* isGroup true if and only if its talker id contains "@chatroom".
C22_IsGroupIffChatroomMarker ==
  GroupedByTalker =>
    \A i \in 1..Len(ReturnedSessions) : IsGroupByMarker(ReturnedSessions[i])

-----------------------------------------------------------------------------
(* Properties of parseCsvLine *)

DoubleQuote == "\""

\* The positions of character ch in s.
PositionsOf(s, ch) == {i \in 1..Len(s) : CharAt(s, i) = ch}

\* Position i of the line is outside quotes: an even number of
\* double-quote characters comes before it.
OutsideQuotes(line, i) ==
  Cardinality({j \in PositionsOf(line, DoubleQuote) : j < i}) % 2 = 0

\* The commas of the line seen while not in quotes.
SplittingCommas(line) == {i \in PositionsOf(line, ",") : OutsideQuotes(line, i)}

\* The k-th splitting comma of the line; 0 before the first, the position
\* after the line's end after the last.
CutAt(line, k) ==
  IF k = 0 THEN 0
  ELSE IF k > Cardinality(SplittingCommas(line)) THEN Len(line) + 1
  ELSE CHOOSE i \in SplittingCommas(line) :
         Cardinality({j \in SplittingCommas(line) : j < i}) = k - 1

\* The characters of the line between its splitting commas k - 1 and k.
Segment(line, k) == SubSeq(line, CutAt(line, k - 1) + 1, CutAt(line, k) - 1)

\* The number of commas of all the fields together.
RECURSIVE CommasIn(_)
CommasIn(fields) ==
  IF fields = <<>> THEN 0
  ELSE Cardinality(PositionsOf(Head(fields), ",")) + CommasIn(Tail(fields))

\* C23: parseCsvLine toggles between in quotes and not in quotes on every
\* double-quote character and splits only on the commas seen while not in
\* quotes: it returns one field more than there are commas outside quotes,
\* the commas inside quotes are in their field, and no field holds a
\* double-quote character.
C23_QuotedFieldStateMachine ==
  op = "parseCsvLine" =>
    /\ Len(result) = 1 + Cardinality(SplittingCommas(input.arg))
    /\ \A k \in 1..Len(result) :
         /\ PositionsOf(result[k], DoubleQuote) = {}
         /\ Cardinality(PositionsOf(result[k], ",")) =
              Cardinality(PositionsOf(Segment(input.arg, k), ","))
    /\ CommasIn(result) =
         Cardinality(PositionsOf(input.arg, ",")) - Cardinality(SplittingCommas(input.arg))

\* A line of a quoted comma and of a second field: two fields come back,
\* the first being the comma.
C23_Witness ==
  /\ op = "parseCsvLine"
  /\ input.arg = "\",\",a"
  /\ result = <<",", "a">>

-----------------------------------------------------------------------------
(* Properties of parseCsvData on rows of any width *)

\* The lines of the text that hold a character other than white space.
HasInk(line) == \E i \in 1..Len(line) : CharAt(line, i) \notin WhiteSpace
InkedLines(text) == SelectSeq(Split(text, "\n"), HasInk)

\* The columns the content of a row is read from, in the order of
\* preference.
ContentAliases == <<"strcontent", "content", "message", "text", "msg">>

\* The value of the row under the column named h: that of the last column
\* of the name, empty when there is none.
ValueUnder(names, fields, h) ==
  IF \A i \in 1..Len(names) : names[i] # h THEN ""
  ELSE fields[CHOOSE i \in 1..Len(names) :
                names[i] = h /\ \A j \in (i + 1)..Len(names) : names[j] # h]

\* The content of the row: the first non-empty value among the aliases.
RowContent(names, fields) ==
  IF \A a \in 1..Len(ContentAliases) : ValueUnder(names, fields, ContentAliases[a]) = ""
  THEN ""
  ELSE ValueUnder(names, fields,
                  ContentAliases[CHOOSE a \in 1..Len(ContentAliases) :
                    /\ ValueUnder(names, fields, ContentAliases[a]) # ""
                    /\ \A b \in 1..(a - 1) :
                         ValueUnder(names, fields, ContentAliases[b]) = ""])

\* The data rows of lines, by index, that have as many fields as the
\* header and a non-empty content.
RowsKept(lines) ==
  {i \in 2..Len(lines) :
     /\ Len(ParseCsvLine(lines[i])) = Len(CsvHeaders(lines[1]))
     /\ RowContent(CsvHeaders(lines[1]), ParseCsvLine(lines[i])) # ""}

\* The data rows of lines whose field count differs from the header's.
RowsOfWrongWidth(lines) ==
  {i \in 2..Len(lines) : Len(ParseCsvLine(lines[i])) # Len(CsvHeaders(lines[1]))}

\* The places of the messages of content c in the sessions.
MessagesOfContent(sessions, c) ==
  UNION {{<<n, j>> : j \in {k \in 1..Len(sessions[n].messages) :
                              sessions[n].messages[k].content = c}} :
           n \in 1..Len(sessions)}

\* The sessions hold one message for each row kept, with its content, and
\* no other message.
OneMessagePerRowKept(sessions, lines) ==
  /\ MessagesIn(sessions) = Cardinality(RowsKept(lines))
  /\ \A i \in RowsKept(lines) :
       Cardinality(MessagesOfContent(sessions,
                     RowContent(CsvHeaders(lines[1]), ParseCsvLine(lines[i])))) =
       Cardinality({j \in RowsKept(lines) :
                      RowContent(CsvHeaders(lines[1]), ParseCsvLine(lines[j])) =
                      RowContent(CsvHeaders(lines[1]), ParseCsvLine(lines[i]))})

-----------------------------------------------------------------------------
(* Properties of parseTextData *)

\* The lines of lines, by index, that match one of the three patterns.
MatchedLines(lines) == {i \in 1..Len(lines) : MatchLine(lines[i]).ok}

\* The k-th matched line of lines; the position after the last line when
\* fewer than k lines match.
MatchedAt(lines, k) ==
  IF k > Cardinality(MatchedLines(lines)) THEN Len(lines) + 1
  ELSE CHOOSE i \in MatchedLines(lines) :
         Cardinality({j \in MatchedLines(lines) : j < i}) = k - 1

\* The lines from to upto of lines, each trimmed and preceded by a newline.
RECURSIVE Continuation(_, _, _)
Continuation(lines, from, upto) ==
  IF from > upto THEN ""
  ELSE "\n" \o Trim(lines[from]) \o Continuation(lines, from + 1, upto)

\* The content of the message of the k-th matched line: the content the
\* pattern captured, trimmed, followed by the lines up to the next match.
ContentWithContinuation(lines, k) ==
  Trim(MatchLine(lines[MatchedAt(lines, k)]).groups[
         Len(MatchLine(lines[MatchedAt(lines, k)]).groups)])
  \o Continuation(lines, MatchedAt(lines, k) + 1, MatchedAt(lines, k + 1) - 1)

\* The text gives these sessions: none when no line matches, and otherwise
\* one session of one message for each matched line, in the order of the
\* lines.
OneSessionOfMatchedLines(sessions, lines) ==
  IF MatchedLines(lines) = {} THEN sessions = <<>>
  ELSE /\ Len(sessions) = 1
       /\ Len(sessions[1].messages) = Cardinality(MatchedLines(lines))
       /\ \A k \in 1..Len(sessions[1].messages) :
            sessions[1].messages[k].content = ContentWithContinuation(lines, k)

\* C25: parseTextData makes one message of each non-blank line that matches
\* one of the three patterns; a line that matches none is appended, trimmed
\* and after a newline, to the content of the most recent message, creates
\* no message, and is discarded only when no message precedes it; the
\* result holds one session of all the messages when a line matched and no
\* session otherwise.
C25_ContinuationLines ==
  op = "parseTextData" =>
    /\ result.totalMessages = Cardinality(MatchedLines(InkedLines(input.arg)))
    /\ OneSessionOfMatchedLines(result.sessions, InkedLines(input.arg))

\* A line that matches nothing before the first message, then a message
\* followed by a line that is appended to it, then a second message.
C25_Witness ==
  /\ op = "parseTextData"
  /\ input.arg = "the end\na: hi\n and more \n[171000] b: yo"
  /\ Len(result.sessions) = 1
  /\ Len(result.sessions[1].messages) = 2
  /\ result.sessions[1].messages[1].content = "hi\nand more"
  /\ result.sessions[1].messages[2].content = "yo"

-----------------------------------------------------------------------------
(* Properties of parseTimestamp *)

\* The string is a plain integer: digits, after an optional sign.
PlainInteger(s) ==
  \/ AllDigits(s)
  \/ Len(s) > 1 /\ CharAt(s, 1) \in {"+", "-"} /\ AllDigits(Tail(s))

\* The string is a date string new Date can parse.
ParseableDate(s) == DateParse(s) # NaN

\* C26: for a string that is not a plain integer but is a parseable date
\* string (such as 2024-01-15 10:30), parseTimestamp returns the epoch
\* milliseconds of the date; it returns the current time only when neither
\* the integer parse nor the date parse succeeds.
C26_DateStringGivesEpoch ==
  (op = "parseTimestamp" /\ input.arg.k = "string") =>
    /\ (~PlainInteger(input.arg.v) /\ ParseableDate(input.arg.v))
       => result = DateParse(input.arg.v).v
    /\ (ParseInt(input.arg.v) # NaN \/ ParseableDate(input.arg.v))
       => \/ ParseInt(input.arg.v) # NaN /\ result = ParseInt(input.arg.v).v
          \/ ParseableDate(input.arg.v) /\ result = DateParse(input.arg.v).v

-----------------------------------------------------------------------------
(* Properties of the time column of the relational extractor *)

\* The database in hand is one message table of a content column and a
\* time column, with one row whose time value is a number.
OneTimedRow ==
  /\ op = "parseDbFile"
  /\ input.arg # Thrown
  /\ Len(input.arg.tables) = 1
  /\ input.arg.tables[1].columns = <<"StrContent", "CreateTime">>
  /\ Len(input.arg.tables[1].rows) = 1
  /\ input.arg.tables[1].rows[1].CreateTime.k = "number"

\* The time value of the row.
TimeValueRead == input.arg.tables[1].rows[1].CreateTime.v

\* The rule of the timestamp normaliser of the JSON path: a number below
\* 10_000_000_000 is in seconds.
SecondsRule(t) == IF t < SecondsThreshold THEN t * 1000 ELSE t

\* C27: the relational extractor applies the rule of the timestamp
\* normaliser: for every numeric value t of the time column the timestamp
\* of the message is t * 1000 when t < 10_000_000_000 and t when
\* t >= 10_000_000_000.
C27_DbSecondsRule ==
  OneTimedRow =>
    /\ Len(result.sessions) = 1
    /\ Len(result.sessions[1].messages) = 1
    /\ result.sessions[1].messages[1].timestamp = SecondsRule(TimeValueRead)

-----------------------------------------------------------------------------
(* Properties of the type tables of the two paths *)

\* C28: the relational path and the JSON path canonicalise type codes the
\* same way: for every numeric type code c, getMessageType(c) is
\* parseMessageType(c), the codes 42, 47, 48 and 50 included.
C28_SameTypeTable ==
  (op = "getMessageType" /\ input.arg.k = "number") =>
    result = Str(ParseMessageType(input.arg))

-----------------------------------------------------------------------------
(* Properties of parseFile *)

\* The name of the file ends in ext, whatever the case.
NamedWith(file, ext) == EndsWith(ToLowerCase(file.name), ext)

\* The text is JSON.
IsJson(text) == JsonParse(text) # Thrown

\* The text, trimmed, starts with { or [.
StartsLikeJson(text) ==
  Trim(text) # "" /\ CharAt(Trim(text), 1) \in {"{", "["}

\* The text holds a comma and its first line, leading white space apart,
\* has more than two comma-separated fields.
StartsLikeCsv(text) ==
  /\ PositionsOf(text, ",") # {}
  /\ Cardinality(PositionsOf(Split(Trim(text), "\n")[1], ",")) >= 2

\* The one normaliser the file belongs to, "none" for a .json file that is
\* no JSON.
RouteOf(file) ==
  IF NamedWith(file, ".json") THEN (IF IsJson(file.text) THEN "json" ELSE "none")
  ELSE IF NamedWith(file, ".csv") THEN "csv"
  ELSE IF StartsLikeJson(file.text) /\ IsJson(file.text) THEN "json"
  ELSE IF StartsLikeCsv(file.text) THEN "csv"
  ELSE "text"

\* What the normaliser of the route returns for the file under clock c.
RoutedResult(file, route, c) ==
  CASE route = "json" -> ParsedDataOf(ParseJsonData(JsonParse(file.text), c.now, c.elapsed))
    [] route = "csv" -> ParsedDataOf(ParseCsvData(file.text, c.now, c.elapsed))
    [] route = "text" -> ParsedDataOf(ParseTextData(file.text, c.now, c.elapsed))
    [] OTHER -> EmptyParsedData

-----------------------------------------------------------------------------
(* Properties of the media lookup under overlapping uploads *)

\* Two invocations were made and both are over.
BothComplete ==
  /\ Len(calls) = 2
  /\ \A i \in 1..Len(calls) : calls[i].pc = "done"

\* The .dat files of invocation i that decryptDatImage decodes.
DecodedBy(i) ==
  {calls[i].files[p] : p \in {q \in 1..Len(calls[i].files) :
                               /\ HasExtension(calls[i].files[q], ".dat")
                               /\ DecryptDatImage(calls[i].files[q].bytes) # Null}}

\* The media map has the entries of the file: its name and its stem.
HasEntriesOf(map, file) ==
  /\ file.name \in DOMAIN map
  /\ Stem(file.name) \in DOMAIN map

\* C30: when two invocations of handleFileUpload overlap (the second starts
\* while the first is suspended at a file read), no update of the media
\* map is lost: after both are over, mediaMap has the entries of every
\* .dat file decoded by either, and every object url created by either is
\* a value of mediaMap, so that handleReset or the unmount revokes it.
C30_NoMediaUpdateLost ==
  BothComplete =>
    /\ \A i \in 1..Len(calls) : \A file \in DecodedBy(i) : HasEntriesOf(mediaMap, file)
    /\ objectUrls \subseteq UrlsOf(mediaMap)

====
